---- MODULE Spec2Model ----
(***************************************************************************)
(* Swiss tournament engine of api/index.py: the tournament document, the   *)
(* KTS standings, the bracket pairing solver and the round lifecycle       *)
(* routes (pair-next, restart-round, override-pair, finalize-round).       *)
(*                                                                         *)
(* Competitor ids are the roster positions 1..N; None (Python None / "")   *)
(* is 0 and the solver's "BYE" sentinel is -1.  A match id minted by       *)
(* new_id is the pair <<round number, table>>: the routes compare match    *)
(* ids only within one document, where round numbers are distinct, so the  *)
(* ids of a document are pairwise different as uuid4 ids are.  Where two   *)
(* pair-next requests overlap, the ids each one mints also carry the       *)
(* request, <<round number, table, request>>.                              *)
(***************************************************************************)
EXTENDS Integers, Sequences, FiniteSets, TLC

\* doc: the tournament document stored under the tournament's key
\* overrides: how many override-pair requests have been served
\* writer: the route whose kv_set_json stored doc
\* race: the pair-next requests served step by step (load, then pair and
\*   save): where each one is, the document it loaded, how many saves had
\*   happened when it loaded, its response, and the order of the saves
\* solver: _pair_brackets run one loop pass at a time: where it is, its
\*   arguments and its local variables
VARIABLES doc, overrides, writer, race, solver

vars == <<doc, overrides, writer, race, solver>>

\* ---------------------------------------------------------------- bounds
MaxPlayers == 4
MaxRounds == 2
DeepRounds == 3
MaxOverrides == 1
MaxBatch == 2
LongRounds == 14
DuelPlayers == 2
DuelRounds == 5
SolvePlayers == 4
SolveBrackets == 3
BracketSeats == 6
ByePlayers == 5

\* ------------------------------------------------------------- sentinels
None == 0
BYE == -1
UnknownMatchId == <<0, 0>>

RealOutcomes == {"A", "B", "TIE"}

\* ------------------------------------------------------- generic helpers
Range(s) == {s[i] : i \in DOMAIN s}

Min2(a, b) == IF a < b THEN a ELSE b

Max2(a, b) == IF a > b THEN a ELSE b

RECURSIVE SumF(_, _)
SumF(f, S) ==
  IF S = {} THEN 0
  ELSE LET x == CHOOSE y \in S : TRUE IN f[x] + SumF(f, S \ {x})

RECURSIVE Fact(_)
Fact(k) == IF k <= 1 THEN 1 ELSE k * Fact(k - 1)

\* list.sort(key=...): Python's sort is stable.  lt is the strict order on
\* the keys, given as a Boolean function on pairs of elements; x is placed
\* after every element whose key is not greater than its own.
RECURSIVE InsertSorted(_, _, _)
InsertSorted(x, s, lt) ==
  IF s = <<>> THEN <<x>>
  ELSE IF lt[<<x, Head(s)>>] THEN <<x>> \o s
  ELSE <<Head(s)>> \o InsertSorted(x, Tail(s), lt)

RECURSIVE StableSortFrom(_, _, _)
StableSortFrom(s, k, lt) ==
  IF k = 0 THEN <<>>
  ELSE InsertSorted(s[k], StableSortFrom(s, k - 1, lt), lt)

StableSort(s, lt) == StableSortFrom(s, Len(s), lt)

\* ------------------------------------------------------- document access
PlayerIds(t) == [i \in DOMAIN t.players |-> t.players[i].id]

NameOf(t, pid) ==
  LET i == CHOOSE j \in DOMAIN t.players : t.players[j].id = pid
  IN t.players[i].name

\* every match of the log, tagged with its round number, as a set of
\* (round index, match index) positions
MatchPos(t) ==
  {<<i, j>> \in (DOMAIN t.rounds) \X (1..MaxPlayers) : j \in DOMAIN t.rounds[i].matches}

MatchAt(t, pos) == t.rounds[pos[1]].matches[pos[2]]

current_round_number(t) ==
  IF t.rounds = <<>> THEN 0
  ELSE CHOOSE n \in {t.rounds[i].n : i \in DOMAIN t.rounds} :
         \A i \in DOMAIN t.rounds : t.rounds[i].n <= n

HasRounds(t) == t.rounds # <<>>

latest_round(t) == t.rounds[Len(t.rounds)]

RoundPending(rnd) == \E j \in DOMAIN rnd.matches : rnd.matches[j].r = "PENDING"

\* round_has_pending with the any(...) over the matches lost
round_has_pending_nonempty(t) == HasRounds(t)

round_has_pending(t) == HasRounds(t) /\ RoundPending(latest_round(t))

PairKey(a, b) == IF a < b THEN <<a, b>> ELSE <<b, a>>

prior_pairs_set(t) ==
  {PairKey(MatchAt(t, pos).a, MatchAt(t, pos).b) :
     pos \in {q \in MatchPos(t) : MatchAt(t, q).b # None}}

\* ------------------------------------------------ match graph (Node)
\* Node: the opponents beaten (or the BYE marker), lost to and tied with,
\* and the rounds of the losses, each in log order
NewNode == [wins |-> <<>>, losses |-> <<>>, ties |-> <<>>, lost_rounds |-> <<>>]

\* the body of the loop of rebuild_graph for one match m of round n
ApplyMatch(players, n, m) ==
  IF m.r = "PENDING" THEN players
  ELSE IF m.r = "BYE"
       THEN [players EXCEPT ![m.a].wins = Append(@, BYE)]
  ELSE IF m.b = None THEN players
  ELSE IF m.r = "A"
       THEN [players EXCEPT ![m.a].wins = Append(@, m.b),
                            ![m.b].losses = Append(@, m.a),
                            ![m.b].lost_rounds = Append(@, n)]
  ELSE IF m.r = "B"
       THEN [players EXCEPT ![m.b].wins = Append(@, m.a),
                            ![m.a].losses = Append(@, m.b),
                            ![m.a].lost_rounds = Append(@, n)]
  ELSE IF m.r = "TIE"
       THEN [players EXCEPT ![m.a].ties = Append(@, m.b),
                            ![m.b].ties = Append(@, m.a)]
  ELSE players

RECURSIVE ApplyMatches(_, _, _, _)
ApplyMatches(players, n, matches, j) ==
  IF j > Len(matches) THEN players
  ELSE ApplyMatches(ApplyMatch(players, n, matches[j]), n, matches, j + 1)

RECURSIVE ApplyRounds(_, _, _)
ApplyRounds(players, rounds, i) ==
  IF i > Len(rounds) THEN players
  ELSE ApplyRounds(ApplyMatches(players, rounds[i].n, rounds[i].matches, 1),
                   rounds, i + 1)

RECURSIVE NewNodes(_)
NewNodes(k) == IF k = 0 THEN <<>> ELSE Append(NewNodes(k - 1), NewNode)

\* rebuild_graph: the nodes by competitor id
rebuild_graph(t) == ApplyRounds(NewNodes(Len(t.players)), t.rounds, 1)

Count(s, x) == Cardinality({i \in DOMAIN s : s[i] = x})

num_byes(node) == Count(node.wins, BYE)

wins_excl_bye(node) == Len(node.wins) - Count(node.wins, BYE)

matches_played_excl_bye(node) ==
  wins_excl_bye(node) + Len(node.losses) + Len(node.ties)

\* match_points counting the real wins only
match_points_real_wins_only(node) == 3 * wins_excl_bye(node)

match_points(node) == 3 * Len(node.wins)

\* p.wins + p.losses + p.ties without the "BYE" markers
Opponents(node) ==
  SelectSeq(node.wins \o node.losses \o node.ties, LAMBDA o : o # BYE)

RECURSIVE SumSeq(_, _)
SumSeq(s, k) == IF k = 0 THEN 0 ELSE s[k] + SumSeq(s, k - 1)

\* The percentages are Python floats.  They are kept here as exact
\* fractions over a common denominator: every competitor plays at most one
\* match per round, so K! with K the number of rounds is a multiple of
\* every matches-played count.
CommonDen(t) == Fact(Len(t.rounds))

\* match_win_pct as a numerator over CommonDen(t); 0.0 when nothing played
match_win_pct(t, node) ==
  LET d == matches_played_excl_bye(node)
  IN IF d = 0 THEN 0 ELSE wins_excl_bye(node) * (CommonDen(t) \div d)

\* opp_win_pct as a fraction num/den; 0/1 for no real opponent
opp_win_pct(t, nodes, p) ==
  LET opps == Opponents(nodes[p])
      f == [k \in DOMAIN opps |-> match_win_pct(t, nodes[opps[k]])]
  IN IF opps = <<>> THEN [num |-> 0, den |-> 1]
     ELSE [num |-> SumSeq(f, Len(opps)), den |-> CommonDen(t) * Len(opps)]

\* mean of opp_win_pct over the same opponents (acc / nopp)
opp_opp_win_pct(t, nodes, p) ==
  LET opps == Opponents(nodes[p])
      L == CommonDen(t)
      f == [k \in DOMAIN opps |->
              LET w == opp_win_pct(t, nodes, opps[k])
              IN w.num * ((L * L) \div w.den)]
  IN IF opps = <<>> THEN [num |-> 0, den |-> 1]
     ELSE [num |-> SumSeq(f, Len(opps)), den |-> L * L * Len(opps)]

\* int(round(x, 3) * 1000): nearest integer to 1000 x, exact halves to even
RoundMilli(fr) ==
  LET q == (1000 * fr.num) \div fr.den
      r == (1000 * fr.num) % fr.den
  IN IF 2 * r > fr.den \/ (2 * r = fr.den /\ q % 2 = 1) THEN q + 1 ELSE q

\* the clamp without its upper end
Clamp999_lower_only(x) == Max2(0, x)

Clamp999(x) == Max2(0, Min2(999, x))

\* decimal digits of a natural number, most significant first: str(n)
RECURSIVE Digits(_)
Digits(n) == IF n < 10 THEN <<n>> ELSE Digits(n \div 10) \o <<n % 10>>

\* the group written without zero padding
Zfill3_no_padding(n) == Digits(n)

\* str(n).zfill(3)
Zfill3(n) ==
  LET d == Digits(n)
  IN IF Len(d) >= 3 THEN d ELSE [i \in 1..(3 - Len(d)) |-> 0] \o d

\* int(x) < int(y) on digit strings: leading zeros carry no value
RECURSIVE StripZeros(_)
StripZeros(d) == IF Len(d) > 1 /\ Head(d) = 0 THEN StripZeros(Tail(d)) ELSE d

RECURSIVE LexLt(_, _)
LexLt(x, y) ==
  IF x = <<>> \/ y = <<>> THEN FALSE
  ELSE IF Head(x) # Head(y) THEN Head(x) < Head(y)
  ELSE LexLt(Tail(x), Tail(y))

IntLt(x, y) ==
  LET a == StripZeros(x)
      b == StripZeros(y)
  IN Len(a) < Len(b) \/ (Len(a) = Len(b) /\ LexLt(a, b))

lost_round_squares(node) ==
  SumSeq([k \in DOMAIN node.lost_rounds |-> node.lost_rounds[k] * node.lost_rounds[k]],
         Len(node.lost_rounds))

\* loss_penalty without the cap at 999
loss_penalty_uncapped(node) == lost_round_squares(node)

\* DDD: the sum of the squares of the rounds lost, capped at 999
loss_penalty(node) == Min2(999, lost_round_squares(node))

\* one row of compute_standings before ranking
StandingRow(t, nodes, p) ==
  LET aa  == match_points(nodes[p])
      bbb == Clamp999(RoundMilli(opp_win_pct(t, nodes, p)))
      ccc == Clamp999(RoundMilli(opp_opp_win_pct(t, nodes, p)))
      ddd == loss_penalty(nodes[p])
  IN [player_id |-> p, name |-> NameOf(t, p), pts |-> aa,
      bbb |-> bbb, ccc |-> ccc, ddd |-> ddd,
      byes |-> num_byes(nodes[p]),
      kts |-> Digits(aa) \o Zfill3(bbb) \o Zfill3(ccc) \o Zfill3(ddd)]

\* the rows in roster order (nodes.values())
RECURSIVE RosterRows(_, _, _)
RosterRows(t, nodes, k) ==
  IF k = 0 THEN <<>>
  ELSE Append(RosterRows(t, nodes, k - 1), StandingRow(t, nodes, PlayerIds(t)[k]))

\* compute_standings with a sort that puts a row ahead of the rows of
\* equal key already placed
compute_standings_unstable(t) ==
  LET rows == RosterRows(t, rebuild_graph(t), Len(t.players))
      lt == [pr \in Range(rows) \X Range(rows) |-> ~IntLt(pr[1].kts, pr[2].kts)]
  IN StableSort(rows, lt)

\* compute_standings: the rows stably sorted by -int(kts); the rank of a
\* row is its position
compute_standings(t) ==
  LET rows == RosterRows(t, rebuild_graph(t), Len(t.players))
      lt == [pr \in Range(rows) \X Range(rows) |-> IntLt(pr[2].kts, pr[1].kts)]
  IN StableSort(rows, lt)

\* _standings_maps: per competitor id, the row holding its points, its kts
\* and its number of byes
_standings_maps(t) == RosterRows(t, rebuild_graph(t), Len(t.players))

\* ------------------------------------------- bye selector and brackets
\* _choose_bye_id with the number of byes left out of the sort key
_choose_bye_id_ignoring_byes(t, maps) ==
  LET everyone == PlayerIds(t)
      S == Range(everyone)
      lt == [pr \in S \X S |->
               LET x == maps[pr[1]]
                   y == maps[pr[2]]
               IN \/ x.pts < y.pts
                  \/ /\ x.pts = y.pts
                     /\ \/ IntLt(x.kts, y.kts)
                        \/ /\ ~IntLt(y.kts, x.kts)
                           /\ x.name < y.name]
  IN StableSort(everyone, lt)[1]

\* _choose_bye_id: everyone sorted by (points, byes, int(kts), name), first
_choose_bye_id(t, maps) ==
  LET everyone == PlayerIds(t)
      S == Range(everyone)
      lt == [pr \in S \X S |->
               LET x == maps[pr[1]]
                   y == maps[pr[2]]
               IN \/ x.pts < y.pts
                  \/ /\ x.pts = y.pts
                     /\ \/ x.byes < y.byes
                        \/ /\ x.byes = y.byes
                           /\ \/ IntLt(x.kts, y.kts)
                              \/ /\ ~IntLt(y.kts, x.kts)
                                 /\ x.name < y.name]
  IN StableSort(everyone, lt)[1]

\* the distinct point totals of ids, highest first
RECURSIVE SortedDesc(_)
SortedDesc(S) ==
  IF S = {} THEN <<>>
  ELSE LET m == CHOOSE x \in S : \A y \in S : y <= x
       IN <<m>> \o SortedDesc(S \ {m})

RECURSIVE BracketsFrom(_, _, _, _, _)
BracketsFrom(ids, maps, levels, lt, k) ==
  IF k = 0 THEN <<>>
  ELSE Append(BracketsFrom(ids, maps, levels, lt, k - 1),
              StableSort(SelectSeq(ids, LAMBDA p : maps[p].pts = levels[k]), lt))

\* _build_brackets: group ids by points, brackets top to bottom, each
\* sorted by (-int(kts), name)
_build_brackets(ids, maps) ==
  LET S == Range(ids)
      levels == SortedDesc({maps[p].pts : p \in S})
      lt == [pr \in S \X S |->
               LET x == maps[pr[1]]
                   y == maps[pr[2]]
               IN \/ IntLt(y.kts, x.kts)
                  \/ /\ ~IntLt(x.kts, y.kts)
                     /\ x.name < y.name]
  IN BracketsFrom(ids, maps, levels, lt, Len(levels))

\* ------------------------------------------------------ pairing solver
Failed == [ok |-> FALSE, pairs |-> <<>>]

\* _pair_within_bracket: bt(i) and its loop over j; used is the set of
\* positions marked used
RECURSIVE bt(_, _, _, _), bt_loop(_, _, _, _, _)
\* a loop over j that prefers the latest partner with which the rest can
\* be completed
bt_loop_latest_first(order, prior, used, i, j) ==
  LET fit == {k \in j..Len(order) :
                /\ k \notin used
                /\ order[i] # order[k]
                /\ PairKey(order[i], order[k]) \notin prior
                /\ bt(order, prior, used \cup {k}, i + 1).ok}
      pick == CHOOSE k \in fit : \A k2 \in fit : k2 <= k
  IN IF fit = {} THEN Failed
     ELSE [ok |-> TRUE,
           pairs |-> <<<<order[i], order[pick]>>>>
                       \o bt(order, prior, used \cup {pick}, i + 1).pairs]

bt(order, prior, used, i) ==
  LET n == Len(order)
      free == {k \in i..n : k \notin used}
  IN IF free = {} THEN [ok |-> TRUE, pairs |-> <<>>]
     ELSE LET i2 == CHOOSE k \in free : \A k2 \in free : k <= k2
          IN bt_loop(order, prior, used \cup {i2}, i2, i2 + 1)

bt_loop(order, prior, used, i, j) ==
  IF j > Len(order) THEN Failed
  ELSE IF \/ j \in used
          \/ order[i] = order[j]
          \/ PairKey(order[i], order[j]) \in prior
       THEN bt_loop(order, prior, used, i, j + 1)
  ELSE LET rest == bt(order, prior, used \cup {j}, i + 1)
       IN IF rest.ok
          THEN [ok |-> TRUE, pairs |-> <<<<order[i], order[j]>>>> \o rest.pairs]
          ELSE bt_loop(order, prior, used, i, j + 1)

_pair_within_bracket(order, prior) == bt(order, prior, {}, 1)

\* _dedupe: keep the first occurrence of every id
RECURSIVE _dedupe(_)
_dedupe(seq) ==
  IF seq = <<>> THEN <<>>
  ELSE LET front == _dedupe(SubSeq(seq, 1, Len(seq) - 1))
           x == seq[Len(seq)]
       IN IF x \in Range(front) THEN front ELSE Append(front, x)

\* random.Random(seed).shuffle of a list of length n, as the positions of
\* the input that end up at positions 1..n (CPython's Mersenne Twister)
ShuffleTable(seed, n) ==
  IF n > 7 THEN [i \in 1..n |-> i]
  ELSE
  CASE seed = 0 -> <<>>
    [] seed = 911 -> <<1>>
    [] seed = 1822 -> <<1, 2>>
    [] seed = 2733 -> <<2, 1, 3>>
    [] seed = 3644 -> <<4, 2, 1, 3>>
    [] seed = 4555 -> <<5, 1, 2, 4, 3>>
    [] seed = 5466 -> <<1, 2, 3, 4, 5, 6>>
    [] seed = 6377 -> <<5, 3, 1, 2, 7, 6, 4>>
    [] seed = 123 ->
         <<<<1>>, <<2, 1>>, <<3, 2, 1>>, <<3, 4, 2, 1>>, <<4, 2, 5, 3, 1>>,
           <<4, 5, 2, 6, 3, 1>>, <<6, 5, 2, 4, 7, 3, 1>> >>[Max2(n, 1)]
    [] seed = 321 ->
         <<<<1>>, <<1, 2>>, <<1, 3, 2>>, <<4, 1, 2, 3>>, <<5, 2, 1, 4, 3>>,
           <<1, 6, 5, 2, 4, 3>>, <<1, 5, 6, 7, 2, 4, 3>> >>[Max2(n, 1)]
    [] seed = 777 ->
         <<<<1>>, <<2, 1>>, <<3, 2, 1>>, <<1, 3, 4, 2>>, <<1, 3, 5, 4, 2>>,
           <<1, 3, 6, 5, 4, 2>>, <<1, 7, 5, 3, 6, 4, 2>> >>[Max2(n, 1)]
    [] seed = 991 ->
         <<<<1>>, <<2, 1>>, <<3, 2, 1>>, <<3, 1, 4, 2>>, <<5, 1, 3, 4, 2>>,
           <<1, 3, 5, 6, 4, 2>>, <<6, 1, 5, 3, 7, 4, 2>> >>[Max2(n, 1)]

Shuffled(seed, v) ==
  LET perm == ShuffleTable(seed, Len(v))
  IN [i \in DOMAIN v |-> v[perm[i]]]

Swap(v, i, j) == [v EXCEPT ![i] = v[j], ![j] = v[i]]

\* v[::2] + v[1::2]
Interleave(v) ==
  LET n == Len(v)
      h == (n + 1) \div 2
  IN [i \in 1..n |-> IF i <= h THEN v[2 * i - 1] ELSE v[2 * (i - h)]]

\* try_orderings: the base order, three local permutations from four
\* members on, one more from six on, one seeded shuffle; duplicates dropped
try_orderings(base0) ==
  LET base == _dedupe(base0)
      n == Len(base)
      v4 == IF n >= 4
            THEN <<Swap(base, n, n - 1), Swap(base, 2, 3), Interleave(base)>>
            ELSE <<>>
      v6 == IF n >= 6 THEN <<Swap(base, 3, 6)>> ELSE <<>>
  IN _dedupe(<<base>> \o v4 \o v6 \o <<Shuffled(n * 911, base)>>)

\* pair_bucket: the first ordering whose backtracking succeeds
RECURSIVE first_pairing(_, _, _)
first_pairing(cands, prior, k) ==
  IF k > Len(cands) THEN Failed
  ELSE LET res == _pair_within_bracket(cands[k], prior)
       IN IF res.ok
          THEN [ok |-> TRUE,
                pairs |-> SelectSeq(res.pairs, LAMBDA pr : pr[1] # pr[2])]
          ELSE first_pairing(cands, prior, k + 1)

pair_bucket(work, prior) == first_pairing(try_orderings(_dedupe(work)), prior, 1)

\* greedy_pair that never accepts a partner already met
RECURSIVE greedy_pair_no_rematch(_, _, _, _, _)
greedy_pair_no_rematch(work, prior, used, chosen, i) ==
  IF i > Len(work) THEN [ok |-> TRUE, pairs |-> chosen]
  ELSE IF i \in used THEN greedy_pair_no_rematch(work, prior, used, chosen, i + 1)
  ELSE LET fresh == {j \in (i + 1)..Len(work) :
                       /\ j \notin used
                       /\ work[j] # work[i]
                       /\ PairKey(work[i], work[j]) \notin prior}
           j0 == CHOOSE j \in fresh : \A k \in fresh : j <= k
       IN IF fresh # {}
          THEN greedy_pair_no_rematch(work, prior, used \cup {i, j0},
                                      Append(chosen, <<work[i], work[j0]>>), i + 1)
          ELSE [ok |-> FALSE, pairs |-> <<>>]

\* greedy_pair: every unused position takes the first later partner it
\* has not met, else the first later partner it has met; with no partner
\* left the whole pass fails
RECURSIVE greedy_pair(_, _, _, _, _)
greedy_pair(work, prior, used, chosen, i) ==
  IF i > Len(work) THEN [ok |-> TRUE, pairs |-> chosen]
  ELSE IF i \in used THEN greedy_pair(work, prior, used, chosen, i + 1)
  ELSE LET cands == {j \in (i + 1)..Len(work) : j \notin used /\ work[j] # work[i]}
           fresh == {j \in cands : PairKey(work[i], work[j]) \notin prior}
           pick(S) == CHOOSE j \in S : \A k \in S : j <= k
       IN IF fresh # {}
          THEN greedy_pair(work, prior, used \cup {i, pick(fresh)},
                           Append(chosen, <<work[i], work[pick(fresh)]>>), i + 1)
          ELSE IF cands # {}
          THEN greedy_pair(work, prior, used \cup {i, pick(cands)},
                           Append(chosen, <<work[i], work[pick(cands)]>>), i + 1)
          ELSE Failed

Front(s) == SubSeq(s, 1, Len(s) - 1)

Last(s) == s[Len(s)]

\* the main loop of _pair_brackets over the brackets, top to bottom
RECURSIVE pair_loop(_, _, _, _, _)
pair_loop(brackets, prior, idx, carry_down, pairs) ==
  IF idx > Len(brackets) THEN pairs
  ELSE
  LET work0 == _dedupe(carry_down \o brackets[idx])
      odd == Len(work0) % 2 = 1
      work == IF odd THEN Front(work0) ELSE work0
      carry1 == IF odd THEN <<Last(work0)>> ELSE <<>>
      res == pair_bucket(work, prior)
      borrow == ~res.ok /\ idx + 1 <= Len(brackets) /\ brackets[idx + 1] # <<>>
      candidate == Head(brackets[idx + 1])
      work2a == IF candidate \in Range(work) THEN work ELSE Append(work, candidate)
      odd2 == Len(work2a) % 2 = 1
      work2 == IF odd2 THEN Front(work2a) ELSE work2a
      carry2 == IF ~borrow THEN carry1
                ELSE IF odd2 THEN <<Last(work2a)>> \o carry1 ELSE carry1
      res2 == pair_bucket(work2, prior)
      greedy == greedy_pair(work, prior, {}, <<>>, 1)
  IN IF work0 = <<>> THEN pair_loop(brackets, prior, idx + 1, <<>>, pairs)
     ELSE IF res.ok THEN pair_loop(brackets, prior, idx + 1, carry1, pairs \o res.pairs)
     ELSE IF borrow /\ res2.ok
          THEN pair_loop([brackets EXCEPT ![idx + 1] = Tail(brackets[idx + 1])],
                         prior, idx + 1, carry2, pairs \o res2.pairs)
     ELSE IF greedy.ok
          THEN pair_loop(brackets, prior, idx + 1, carry2, pairs \o greedy.pairs)
     ELSE pair_loop(brackets, prior, idx + 1, work \o carry2, pairs)

\* a bye preselection that takes the tail of the lowest non-empty bracket
\* whoever has had a bye
ByeChoice_strict_last(brackets, bye_already) ==
  LET pos == {<<k, x>> \in (DOMAIN brackets) \X (1..MaxPlayers + 1) :
                x \in DOMAIN brackets[k]}
      later(p, q) == p[1] > q[1] \/ (p[1] = q[1] /\ p[2] >= q[2])
  IN CHOOSE q \in pos : \A q2 \in pos : later(q, q2)

\* the bye preselection of _pair_brackets: <<bracket, position>> of the
\* last member, scanning brackets bottom-up and each from its tail, who is
\* not in bye_already; failing that the tail of the lowest non-empty bracket
ByeChoice(brackets, bye_already) ==
  LET pos == {<<k, x>> \in (DOMAIN brackets) \X (1..MaxPlayers + 1) :
                x \in DOMAIN brackets[k]}
      later(p, q) == p[1] > q[1] \/ (p[1] = q[1] /\ p[2] >= q[2])
      eligible == {q \in pos : brackets[q[1]][q[2]] \notin bye_already}
      from == IF eligible # {} THEN eligible ELSE pos
  IN CHOOSE q \in from : \A q2 \in from : later(q, q2)

RemoveAt(s, x) == SubSeq(s, 1, x - 1) \o SubSeq(s, x + 1, Len(s))

\* _valid: no self-pair, nobody seated twice
_valid(ps) ==
  /\ \A i \in DOMAIN ps : ps[i][1] # ps[i][2]
  /\ \A i, j \in DOMAIN ps :
       i < j => /\ ps[i][1] # ps[j][1]
                /\ ps[j][2] = BYE \/ ps[i][1] # ps[j][2]
                /\ ps[i][2] = BYE \/ (ps[i][2] # ps[j][1] /\ ps[i][2] # ps[j][2])

\* the players of the real pairs, in order, for the emergency repair
RECURSIVE PoolOf(_)
PoolOf(ps) ==
  IF ps = <<>> THEN <<>>
  ELSE IF Head(ps)[2] = BYE THEN PoolOf(Tail(ps))
  ELSE <<Head(ps)[1], Head(ps)[2]>> \o PoolOf(Tail(ps))

RepairSeeds == <<123, 321, 777, 991>>

\* the emergency repair: global backtracking over seeded shuffles of the
\* pool; an empty rebuilt list counts as a failure
RECURSIVE repair(_, _, _, _)
repair(pool, prior, byeTail, k) ==
  IF k > Len(RepairSeeds) THEN Failed
  ELSE LET rebuilt == _pair_within_bracket(Shuffled(RepairSeeds[k], pool), prior)
       IN IF rebuilt.ok /\ rebuilt.pairs # <<>> /\ _valid(rebuilt.pairs \o byeTail)
          THEN [ok |-> TRUE, pairs |-> rebuilt.pairs \o byeTail]
          ELSE repair(pool, prior, byeTail, k + 1)

\* the last-chance sanitizer: drop self-pairs, repeated players and edges
RECURSIVE sanitize(_, _, _)
sanitize(ps, used_players, final) ==
  IF ps = <<>> THEN final
  ELSE LET a == Head(ps)[1]
           b == Head(ps)[2]
       IN IF a = b THEN sanitize(Tail(ps), used_players, final)
          ELSE IF b = BYE
          THEN IF a \in used_players THEN sanitize(Tail(ps), used_players, final)
               ELSE sanitize(Tail(ps), used_players \cup {a}, Append(final, <<a, b>>))
          ELSE IF a \in used_players \/ b \in used_players
          THEN sanitize(Tail(ps), used_players, final)
          ELSE sanitize(Tail(ps), used_players \cup {a, b}, Append(final, <<a, b>>))

\* _pair_brackets
_pair_brackets(brackets0, prior, bye_already) ==
  LET total == SumF([k \in DOMAIN brackets0 |-> Len(brackets0[k])], DOMAIN brackets0)
      hasBye == total % 2 = 1
      q == ByeChoice(brackets0, bye_already)
      bye_player == IF hasBye THEN brackets0[q[1]][q[2]] ELSE None
      brackets == IF hasBye
                  THEN [brackets0 EXCEPT ![q[1]] = RemoveAt(brackets0[q[1]], q[2])]
                  ELSE brackets0
      byeTail == IF hasBye THEN <<<<bye_player, BYE>>>> ELSE <<>>
      rescue(pairs, fixed) == IF fixed.ok THEN fixed.pairs
                              ELSE sanitize(pairs, {}, <<>>)
      settle(pairs) ==
        IF _valid(pairs) THEN pairs
        ELSE rescue(pairs, repair(_dedupe(PoolOf(pairs)), prior, byeTail, 1))
  IN settle(pair_loop(brackets, prior, 1, <<>>, <<>>) \o byeTail)

\* ------------------------------------------------------------ pairing
\* new_id("m") for the match seated at a table of round n
new_id(n, table) == <<n, table>>

PendingMatch(n, table, a, b) ==
  [id |-> new_id(n, table), t |-> table, a |-> a, b |-> b, r |-> "PENDING"]

ByeMatch(n, table, a) ==
  [id |-> new_id(n, table), t |-> table, a |-> a, b |-> None, r |-> "BYE"]

\* pair_next: the round number and match list of the next round
pair_next(t) ==
  LET ids0 == PlayerIds(t)
      odd == Len(ids0) % 2 = 1
      maps == _standings_maps(t)
      bye_id == IF odd THEN _choose_bye_id(t, maps) ELSE None
      all_ids == IF odd THEN SelectSeq(ids0, LAMBDA p : p # bye_id) ELSE ids0
      brackets == _build_brackets(all_ids, maps)
      rnd_no == current_round_number(t) + 1
      seat(id_pairs) == [k \in DOMAIN id_pairs |->
                           PendingMatch(rnd_no, k, id_pairs[k][1], id_pairs[k][2])]
      with_bye(paired, bye) ==
        IF bye # None THEN Append(paired, ByeMatch(rnd_no, Len(paired) + 1, bye))
        ELSE paired
  IN [n |-> rnd_no,
      matches |-> with_bye(seat(_pair_brackets(brackets, prior_pairs_set(t), {})),
                           bye_id)]

\* _bye_already_from_rounds
_bye_already_from_rounds(t) ==
  {MatchAt(t, pos).a :
     pos \in {q \in MatchPos(t) :
                /\ MatchAt(t, q).r = "BYE" \/ MatchAt(t, q).b \in {None, BYE}
                /\ MatchAt(t, q).a # None}}

\* _bye_history_get
_bye_history_get(t) == Range(t.bye_history)

\* _bye_history_add
_bye_history_add(t, player_id) ==
  IF player_id = None \/ player_id \in Range(t.bye_history) THEN t
  ELSE [t EXCEPT !.bye_history = Append(t.bye_history, player_id)]

PopRound(t) == [t EXCEPT !.rounds = SubSeq(t.rounds, 1, Len(t.rounds) - 1)]

PushRound(t, n, matches) ==
  [t EXCEPT !.rounds = Append(t.rounds, [n |-> n, matches |-> matches])]

\* pair_next_with_overrides that leaves the locked players in the pool
pair_next_with_overrides_keep_locked(t, a, b) ==
  LET all_ids == _dedupe(PlayerIds(t))
      locked == IF a # None /\ b # None /\ a # b /\ {a, b} \subseteq Range(all_ids)
                THEN <<<<a, b>>>> ELSE <<>>
      brackets == _build_brackets(all_ids, _standings_maps(t))
      bye_already == _bye_already_from_rounds(t) \cup _bye_history_get(t)
      rnd_no == current_round_number(t) + 1
      seat(all_pairs) ==
        [k \in DOMAIN all_pairs |->
           IF all_pairs[k][2] = BYE
           THEN ByeMatch(rnd_no, k, all_pairs[k][1])
           ELSE PendingMatch(rnd_no, k, all_pairs[k][1], all_pairs[k][2])]
  IN [n |-> rnd_no,
      matches |-> seat(locked \o _pair_brackets(brackets, prior_pairs_set(t),
                                                bye_already)),
      t |-> t]

\* pair_next_with_overrides for one locked pair (a, b): the round, and the
\* document with the bye recipient added to bye_history
pair_next_with_overrides(t, a, b) ==
  LET all_ids == _dedupe(PlayerIds(t))
      seen == Range(all_ids)
      locked == IF a # None /\ b # None /\ a # b /\ a \in seen /\ b \in seen
                THEN <<<<a, b>>>> ELSE <<>>
      locked_flat == IF locked = <<>> THEN {} ELSE {a, b}
      remaining == SelectSeq(all_ids, LAMBDA p : p \notin locked_flat)
      brackets == _build_brackets(remaining, _standings_maps(t))
      bye_already == _bye_already_from_rounds(t) \cup _bye_history_get(t)
      rnd_no == current_round_number(t) + 1
      matches(all_pairs) ==
        [k \in DOMAIN all_pairs |->
           IF all_pairs[k][2] = BYE
           THEN ByeMatch(rnd_no, k, all_pairs[k][1])
           ELSE PendingMatch(rnd_no, k, all_pairs[k][1], all_pairs[k][2])]
      last_bye(all_pairs, byes) ==
        IF byes = {} THEN None
        ELSE all_pairs[CHOOSE k \in byes : \A k2 \in byes : k2 <= k][1]
      bye_recipient(all_pairs) ==
        last_bye(all_pairs, {k \in DOMAIN all_pairs : all_pairs[k][2] = BYE})
      round(all_pairs) ==
        [n |-> rnd_no,
         matches |-> matches(all_pairs),
         t |-> _bye_history_add(t, bye_recipient(all_pairs))]
  IN round(locked \o _pair_brackets(brackets, prior_pairs_set(t), bye_already))

\* restart_current_round_doc that pairs without popping the active round
restart_current_round_doc_no_pop(t) ==
  IF ~HasRounds(t) \/ ~round_has_pending(t)
  THEN [ok |-> FALSE, t |-> t, n |-> 0, matches |-> <<>>]
  ELSE LET redo(out) == [ok |-> TRUE, t |-> t, n |-> out.n, matches |-> out.matches]
       IN redo(pair_next(t))

\* restart_current_round_doc that pops the active round only after pairing
restart_current_round_doc_pair_first(t) ==
  IF ~HasRounds(t) \/ ~round_has_pending(t)
  THEN [ok |-> FALSE, t |-> t, n |-> 0, matches |-> <<>>]
  ELSE LET redo(out) ==
             [ok |-> TRUE, t |-> PopRound(t), n |-> out.n, matches |-> out.matches]
       IN redo(pair_next(t))

\* restart_current_round_doc: pop the active round and pair it again;
\* refused without a round or without a PENDING match in the latest one
restart_current_round_doc(t) ==
  IF ~HasRounds(t) \/ ~round_has_pending(t)
  THEN [ok |-> FALSE, t |-> t, n |-> 0, matches |-> <<>>]
  ELSE LET popped == PopRound(t)
           redo(out) == [ok |-> TRUE, t |-> popped, n |-> out.n, matches |-> out.matches]
       IN redo(pair_next(popped))

\* ------------------------------------------------------------- routes
\* each route maps the document it loads to its response (ok) and to the
\* document stored afterwards; saved tells whether kv_set_json was called
\* api_pair_next without the check for an active round
api_pair_next_no_active_check(t) ==
  IF current_round_number(t) >= t.total_rounds
  THEN [ok |-> FALSE, saved |-> FALSE, t |-> t]
  ELSE LET store(out) ==
             [ok |-> TRUE, saved |-> TRUE, t |-> PushRound(t, out.n, out.matches)]
       IN store(pair_next(t))

\* api_pair_next comparing the round number with > instead of >=
api_pair_next_off_by_one(t) ==
  IF round_has_pending(t) THEN [ok |-> FALSE, saved |-> FALSE, t |-> t]
  ELSE IF current_round_number(t) > t.total_rounds
       THEN [ok |-> FALSE, saved |-> FALSE, t |-> t]
  ELSE LET store(out) ==
             [ok |-> TRUE, saved |-> TRUE, t |-> PushRound(t, out.n, out.matches)]
       IN store(pair_next(t))

api_pair_next(t) ==
  IF round_has_pending(t) THEN [ok |-> FALSE, saved |-> FALSE, t |-> t]
  ELSE IF current_round_number(t) >= t.total_rounds
       THEN [ok |-> FALSE, saved |-> FALSE, t |-> t]
  ELSE LET store(out) ==
             [ok |-> TRUE, saved |-> TRUE, t |-> PushRound(t, out.n, out.matches)]
       IN store(pair_next(t))

api_restart_round(t) ==
  IF ~HasRounds(t) THEN [ok |-> FALSE, saved |-> FALSE, t |-> t]
  ELSE IF ~round_has_pending(t) THEN [ok |-> FALSE, saved |-> FALSE, t |-> t]
  ELSE LET store(out) ==
             IF ~out.ok THEN [ok |-> FALSE, saved |-> FALSE, t |-> t]
             ELSE [ok |-> TRUE, saved |-> TRUE,
                   t |-> PushRound(out.t, out.n, out.matches)]
       IN store(restart_current_round_doc(t))

api_override_pair(t, a, b) ==
  IF a = None \/ b = None THEN [ok |-> FALSE, saved |-> FALSE, t |-> t]
  ELSE IF a = b THEN [ok |-> FALSE, saved |-> FALSE, t |-> t]
  ELSE LET base == IF HasRounds(t) /\ round_has_pending(t) THEN PopRound(t) ELSE t
           store(out) ==
             [ok |-> TRUE, saved |-> TRUE, t |-> PushRound(out.t, out.n, out.matches)]
       IN store(pair_next_with_overrides(base, a, b))

\* an update loop that gives up at the first entry it cannot apply
RECURSIVE apply_results_until_invalid(_, _)
apply_results_until_invalid(matches, results) ==
  IF results = <<>> THEN matches
  ELSE LET r == Head(results)
           hit == {j \in DOMAIN matches : matches[j].id = r.match_id}
           j == CHOOSE k \in hit : \A k2 \in hit : k2 <= k
       IN IF hit # {} /\ r.outcome \in RealOutcomes
          THEN apply_results_until_invalid([matches EXCEPT ![j].r = r.outcome],
                                           Tail(results))
          ELSE matches

\* the loop of api_finalize_round over the results, applied to the latest
\* round's matches
RECURSIVE apply_results(_, _)
apply_results(matches, results) ==
  IF results = <<>> THEN matches
  ELSE LET r == Head(results)
           hit == {j \in DOMAIN matches : matches[j].id = r.match_id}
           j == CHOOSE k \in hit : \A k2 \in hit : k2 <= k
       IN IF hit # {} /\ r.outcome \in RealOutcomes
          THEN apply_results([matches EXCEPT ![j].r = r.outcome], Tail(results))
          ELSE apply_results(matches, Tail(results))

\* a finalize that looks the match ids up in every round
api_finalize_round_any_round(t, results) ==
  IF results = <<>> THEN [ok |-> FALSE, saved |-> FALSE, t |-> t]
  ELSE IF ~HasRounds(t) THEN [ok |-> FALSE, saved |-> FALSE, t |-> t]
  ELSE [ok |-> TRUE, saved |-> TRUE,
        t |-> [t EXCEPT !.rounds =
                 [k \in DOMAIN t.rounds |->
                    [t.rounds[k] EXCEPT !.matches = apply_results(@, results)]]]]

api_finalize_round(t, results) ==
  IF results = <<>> THEN [ok |-> FALSE, saved |-> FALSE, t |-> t]
  ELSE IF ~HasRounds(t) THEN [ok |-> FALSE, saved |-> FALSE, t |-> t]
  ELSE [ok |-> TRUE, saved |-> TRUE,
        t |-> [t EXCEPT !.rounds[Len(t.rounds)].matches =
                          apply_results(latest_round(t).matches, results)]]

\* ------------------------------------------------------ state machine
\* create_tournament: a roster of n competitors named in roster order
NewTournament(n, total_rounds) ==
  [players |-> [i \in 1..n |-> [id |-> i, name |-> i]],
   total_rounds |-> total_rounds,
   rounds |-> <<>>,
   bye_history |-> <<>>]

\* the pair-next requests that may overlap
Requests == {1, 2}

NoReply == [ok |-> FALSE, round |-> 0, ids |-> {}]

\* no request has been received
NoRace ==
  [pc |-> [r \in Requests |-> "idle"],
   t |-> [r \in Requests |-> NewTournament(0, 0)],
   seen |-> [r \in Requests |-> 0],
   reply |-> [r \in Requests |-> NoReply],
   saves |-> <<>>]

\* _pair_brackets called with brackets and prior pairs, about to run
Solving(brackets, prior) ==
  [pc |-> "start", input |-> brackets, prior |-> prior, brackets |-> brackets,
   bye_player |-> None, idx |-> 1, carry_down |-> <<>>, pairs |-> <<>>,
   work |-> <<>>, cands |-> <<>>, k |-> 1, borrowed |-> FALSE, tier |-> "none",
   bt |-> [order |-> <<>>, frames |-> <<>>, used |-> {}, res |-> <<>>,
           mode |-> "off", arg |-> 0],
   i |-> 1, used |-> {}, chosen |-> <<>>, pool |-> <<>>, rest |-> <<>>,
   final |-> <<>>, result |-> <<>>, tiers |-> {}]

\* the solver is not being stepped
NoSolver == [Solving(<<>>, {}) EXCEPT !.pc = "idle"]

Init ==
  /\ \E n \in 1..MaxPlayers, tr \in 1..MaxRounds : doc = NewTournament(n, tr)
  /\ overrides = 0
  /\ writer = "create_tournament"
  /\ race = NoRace
  /\ solver = NoSolver

\* the inputs a client may send
UnknownPlayer == MaxPlayers + 7

\* forced pairs: every ordered pair of the roster, self-pairs, and a
\* missing or unknown id on either side
ForcedPairs(t) ==
  LET P == Range(PlayerIds(t))
  IN (P \X P) \cup {<<None, 1>>, <<1, None>>, <<UnknownPlayer, 1>>, <<1, UnknownPlayer>>}

LatestIds(t) ==
  IF HasRounds(t)
  THEN {latest_round(t).matches[j].id : j \in DOMAIN latest_round(t).matches}
  ELSE {}

\* result entries: every outcome, valid or not, for the matches of the
\* latest round, and an entry naming no match of it
ResultEntries(t) ==
  [match_id : LatestIds(t), outcome : RealOutcomes \cup {"X"}]
    \cup {[match_id |-> UnknownMatchId, outcome |-> "A"]}

RECURSIVE SeqsUpTo(_, _)
SeqsUpTo(S, k) ==
  IF k = 0 THEN {<<>>}
  ELSE LET shorter == SeqsUpTo(S, k - 1)
       IN shorter \cup {Append(s, x) : s \in {u \in shorter : Len(u) = k - 1}, x \in S}

Batches(t) == SeqsUpTo(ResultEntries(t), MaxBatch)

\* a route's effect on the store
Stored(out, route) ==
  /\ doc' = out.t
  /\ writer' = IF out.saved THEN route ELSE writer
  /\ UNCHANGED <<race, solver>>

PairNext ==
  /\ Stored(api_pair_next(doc), "pair_next")
  /\ UNCHANGED overrides

RestartRound ==
  /\ Stored(api_restart_round(doc), "restart_round")
  /\ UNCHANGED overrides

OverridePair ==
  \E pr \in ForcedPairs(doc) :
    LET serve(out) ==
          /\ out.saved => (overrides < MaxOverrides /\ Len(out.t.rounds) <= MaxRounds)
          /\ Stored(out, "override_pair")
          /\ overrides' = IF out.saved THEN overrides + 1 ELSE overrides
    IN serve(api_override_pair(doc, pr[1], pr[2]))

FinalizeRound ==
  \E results \in Batches(doc) :
    /\ Stored(api_finalize_round(doc, results), "finalize_round")
    /\ UNCHANGED overrides

Next == PairNext \/ RestartRound \/ OverridePair \/ FinalizeRound

Spec == Init /\ [][Next]_vars

\* create_tournament with the names given per roster position
NamedTournament(n, total_rounds, names) ==
  [players |-> [i \in 1..n |-> [id |-> i, name |-> names[i]]],
   total_rounds |-> total_rounds,
   rounds |-> <<>>,
   bye_history |-> <<>>]

\* the Swiss rounds alone (no manual override), over more rounds; the
\* names are in roster order or in the reverse of it
InitSwiss ==
  /\ \E n \in 1..MaxPlayers :
       \E names \in {[i \in 1..n |-> i], [i \in 1..n |-> n + 1 - i]} :
         doc = NamedTournament(n, DeepRounds, names)
  /\ overrides = 0
  /\ writer = "create_tournament"
  /\ race = NoRace
  /\ solver = NoSolver

NextSwiss == PairNext \/ RestartRound \/ FinalizeRound

SpecSwiss == InitSwiss /\ [][NextSwiss]_vars

\* small rosters over enough rounds for points of two digits
InitDuel ==
  /\ \E n \in 1..DuelPlayers : doc = NewTournament(n, DuelRounds)
  /\ overrides = 0
  /\ writer = "create_tournament"
  /\ race = NoRace
  /\ solver = NoSolver

NextDuel == PairNext \/ RestartRound \/ FinalizeRound

SpecDuel == InitDuel /\ [][NextDuel]_vars

\* a long duel: two competitors, k rounds on record and round k + 1 active,
\* every round forced as competitor 1 against competitor 2 by override-pair;
\* outs gives the recorded outcomes
LongDoc(k, outs) ==
  [players |-> [i \in 1..2 |-> [id |-> i, name |-> i]],
   total_rounds |-> LongRounds,
   rounds |-> [i \in 1..(k + 1) |->
                 [n |-> i,
                  matches |-> <<[id |-> new_id(i, 1), t |-> 1, a |-> 1, b |-> 2,
                                 r |-> IF i <= k THEN outs[i] ELSE "PENDING"]>>]],
   bye_history |-> <<>>]

\* results are recorded on long duels of every length and history
InitLong ==
  /\ \E k \in 0..(LongRounds - 1) :
       \E outs \in [1..k -> {"A", "B"}] : doc = LongDoc(k, outs)
  /\ overrides = 0
  /\ writer = "override_pair"
  /\ race = NoRace
  /\ solver = NoSolver

NextLong == FinalizeRound

SpecLong == InitLong /\ [][NextLong]_vars

\* ------------------------------------ override-pair on an odd rest
\* a roster of ByePlayers, so that a forced pair leaves an odd rest of
\* more than one
InitBye ==
  /\ doc = NewTournament(ByePlayers, MaxRounds)
  /\ overrides = 0
  /\ writer = "create_tournament"
  /\ race = NoRace
  /\ solver = NoSolver

\* finalize-round with one batch that reports every pending match of the
\* active round, in table order
WholeBatches(t) ==
  LET ms == latest_round(t).matches
      open == SelectSeq(ms, LAMBDA m : m.r = "PENDING")
  IN {[k \in DOMAIN open |-> [match_id |-> open[k].id, outcome |-> f[k]]] :
        f \in [DOMAIN open -> RealOutcomes]}

FinalizeWhole ==
  /\ HasRounds(doc)
  /\ \E results \in WholeBatches(doc) :
       Stored(api_finalize_round(doc, results), "finalize_round")
  /\ UNCHANGED overrides

NextBye == PairNext \/ OverridePair \/ FinalizeWhole

SpecBye == InitBye /\ [][NextBye]_vars

\* ------------------------------------- one bracket's backtracking
\* _pair_within_bracket about to run on a working set in rank order, its
\* members named by their positions, with some of them having met
InitBracket ==
  /\ doc = NewTournament(0, 0)
  /\ overrides = 0
  /\ writer = "create_tournament"
  /\ race = NoRace
  /\ \E n \in 0..BracketSeats :
       \E prior \in SUBSET {pr \in (1..n) \X (1..n) : pr[1] < pr[2]} :
         solver = [Solving(<<[i \in 1..n |-> i]>>, prior) EXCEPT
                     !.pc = "bt", !.tier = "bucket", !.bt.mode = "call",
                     !.bt.order = [i \in 1..n |-> i], !.bt.arg = 1]

\* the whole call of _pair_within_bracket: its pairs, or None
BracketRun ==
  /\ solver.pc = "bt"
  /\ solver.bt.mode = "call"
  /\ LET ret(out) ==
          solver' = [solver EXCEPT !.bt.res = out.pairs,
                                   !.bt.mode = IF out.ok THEN "true" ELSE "false"]
     IN ret(_pair_within_bracket(solver.bt.order, solver.prior))
  /\ UNCHANGED <<doc, overrides, writer, race>>

NextBracket == BracketRun

SpecBracket == InitBracket /\ [][NextBracket]_vars

\* --------------------------------- finalize naming earlier matches
EarlierIds(t) ==
  UNION {{t.rounds[k].matches[j].id : j \in DOMAIN t.rounds[k].matches} :
         k \in 1..(Len(t.rounds) - 1)}

\* result entries naming matches of the rounds below the latest
StaleEntries(t) == [match_id : EarlierIds(t), outcome : {"A", "B"}]

\* finalize-round on a batch that may also name matches of earlier rounds
FinalizeAnyRound ==
  \E results \in SeqsUpTo(ResultEntries(doc) \cup StaleEntries(doc), MaxBatch) :
    /\ Stored(api_finalize_round(doc, results), "finalize_round")
    /\ UNCHANGED overrides

NextFrame == PairNext \/ RestartRound \/ OverridePair \/ FinalizeAnyRound

SpecFrame == Init /\ [][NextFrame]_vars

\* ------------------------------------------- overlapping pair-next
\* new_id within request r: uuid4 ids of different requests differ
new_id_in(r, id) == Append(id, r)

Stamp(matches, r) ==
  [j \in DOMAIN matches |-> [matches[j] EXCEPT !.id = new_id_in(r, @)]]

\* api_pair_next of request r on the document t it loaded
api_pair_next_in(r, t) ==
  LET stamp(out) ==
        IF out.saved
        THEN [out EXCEPT !.t.rounds[Len(out.t.rounds)].matches = Stamp(@, r)]
        ELSE out
  IN stamp(api_pair_next(t))

\* a store that appends the round of the value to the stored document
kv_set_json_merging(stored, value) ==
  [stored EXCEPT !.rounds = Append(@, value.rounds[Len(value.rounds)])]

\* kv_set_json: the value replaces what is stored under the key
kv_set_json(stored, value) == value

\* read_tdoc_or_retry of request r
Load(r) ==
  /\ race.pc[r] = "idle"
  /\ race' = [race EXCEPT !.pc[r] = "loaded", !.t[r] = doc,
                          !.seen[r] = Len(race.saves)]
  /\ UNCHANGED <<doc, overrides, writer, solver>>

\* the rest of api_pair_next for request r: the checks, pair_next, the
\* save and the response
Serve(r) ==
  /\ race.pc[r] = "loaded"
  /\ LET finish(out) ==
          /\ doc' = IF out.saved THEN kv_set_json(doc, out.t) ELSE doc
          /\ writer' = IF out.saved THEN "pair_next" ELSE writer
          /\ race' = [race EXCEPT
                        !.pc[r] = "done",
                        !.reply[r] =
                          IF out.ok
                          THEN [ok |-> TRUE, round |-> latest_round(out.t).n,
                                ids |-> LatestIds(out.t)]
                          ELSE NoReply,
                        !.saves = IF out.saved THEN Append(@, r) ELSE @]
          /\ UNCHANGED <<overrides, solver>>
     IN finish(api_pair_next_in(r, race.t[r]))

\* requests served alone, before any overlap
QuietPairNext == race = NoRace /\ PairNext

QuietFinalizeRound == race = NoRace /\ FinalizeRound

LoadSome == \E r \in Requests : Load(r)

ServeSome == \E r \in Requests : Serve(r)

NextRace == QuietPairNext \/ QuietFinalizeRound \/ LoadSome \/ ServeSome

SpecRace == Init /\ [][NextRace]_vars

\* ------------------------------------- the pairing solver, step by step
\* an ordering loop that tries the same ordering again
NextAttempt_same(k) == k

\* the next ordering pair_bucket tries after a failed one
NextAttempt(k) == k + 1

BtOn(order) ==
  [order |-> order, frames |-> <<>>, used |-> {}, res |-> <<>>,
   mode |-> "call", arg |-> 1]

\* the bye preselection at the head of _pair_brackets (bye_already empty)
solve_start(s) ==
  LET total == SumF([k \in DOMAIN s.input |-> Len(s.input[k])], DOMAIN s.input)
      hasBye == total % 2 = 1
      q == ByeChoice(s.input, {})
  IN [s EXCEPT !.pc = "bucket",
               !.bye_player = IF hasBye THEN s.input[q[1]][q[2]] ELSE None,
               !.brackets = IF hasBye
                            THEN [s.input EXCEPT ![q[1]] = RemoveAt(s.input[q[1]], q[2])]
                            ELSE s.input]

\* the head of one pass of the loop over the brackets
next_bucket(s) ==
  IF s.idx > Len(s.brackets) THEN [s EXCEPT !.pc = "validate"]
  ELSE LET work0 == _dedupe(s.carry_down \o s.brackets[s.idx])
           odd == Len(work0) % 2 = 1
           work == IF odd THEN Front(work0) ELSE work0
       IN IF work0 = <<>> THEN [s EXCEPT !.idx = @ + 1, !.carry_down = <<>>]
          ELSE [s EXCEPT !.pc = "attempt", !.work = work,
                         !.carry_down = IF odd THEN <<Last(work0)>> ELSE <<>>,
                         !.cands = try_orderings(_dedupe(work)), !.k = 1,
                         !.borrowed = FALSE, !.tiers = @ \cup {"orderings"}]

\* pair_bucket's loop over the orderings; once they are used up, the
\* borrow if it has not been tried and the next bracket has a member,
\* else the greedy pass
attempt(s) ==
  IF s.k <= Len(s.cands)
  THEN [s EXCEPT !.pc = "bt", !.tier = "bucket", !.bt = BtOn(s.cands[s.k])]
  ELSE IF /\ ~s.borrowed
          /\ s.idx + 1 <= Len(s.brackets)
          /\ s.brackets[s.idx + 1] # <<>>
  THEN [s EXCEPT !.pc = "borrow"]
  ELSE [s EXCEPT !.pc = "greedy", !.i = 1, !.used = {}, !.chosen = <<>>,
                 !.tiers = @ \cup {"greedy"}]

\* borrow ONE from the next bracket and try the orderings again
borrow_one(s) ==
  LET candidate == Head(s.brackets[s.idx + 1])
      work2a == IF candidate \in Range(s.work) THEN s.work
                ELSE Append(s.work, candidate)
      odd2 == Len(work2a) % 2 = 1
      work2 == IF odd2 THEN Front(work2a) ELSE work2a
  IN [s EXCEPT !.pc = "attempt", !.borrowed = TRUE,
               !.carry_down = IF odd2 THEN <<Last(work2a)>> \o @ ELSE @,
               !.cands = try_orderings(_dedupe(work2)), !.k = 1,
               !.tiers = @ \cup {"borrow"}]

\* bt(i) up to its loop: skip the used positions, succeed past the end,
\* else mark position i and open its loop over j
bt_enter(b) ==
  LET free == {k \in b.arg..Len(b.order) : k \notin b.used}
      i == CHOOSE k \in free : \A k2 \in free : k <= k2
  IN IF free = {} THEN [b EXCEPT !.mode = "true"]
     ELSE [b EXCEPT !.used = @ \cup {i}, !.mode = "loop",
                    !.frames = Append(@, [i |-> i, j |-> i])]

\* one pass of bt's loop over j: past the end unmark i and return False;
\* skip a used, equal or already met partner; else take j and call bt(i+1)
bt_iterate(b, prior) ==
  LET d == Len(b.frames)
      i == b.frames[d].i
      j == b.frames[d].j + 1
  IN IF j > Len(b.order)
     THEN [b EXCEPT !.used = @ \ {i}, !.frames = Front(@), !.mode = "false"]
     ELSE IF \/ j \in b.used
             \/ b.order[i] = b.order[j]
             \/ PairKey(b.order[i], b.order[j]) \in prior
     THEN [b EXCEPT !.frames[d].j = j]
     ELSE [b EXCEPT !.frames[d].j = j, !.used = @ \cup {j},
                    !.res = Append(@, <<b.order[i], b.order[j]>>),
                    !.mode = "call", !.arg = i + 1]

\* the inner call returned False: undo the pair and go on with the loop
bt_resume(b) ==
  [b EXCEPT !.res = Front(@), !.used = @ \ {Last(b.frames).j}, !.mode = "loop"]

SolverByeTail(s) ==
  IF s.bye_player # None THEN <<<<s.bye_player, BYE>>>> ELSE <<>>

\* the outermost bt returned: pair_bucket takes the pairing or moves to
\* the next ordering; the repair takes a valid rebuilt round or moves to
\* the next seed
bt_return(s) ==
  LET ok == s.bt.mode = "true"
      res == s.bt.res
      off == [order |-> <<>>, frames |-> <<>>, used |-> {}, res |-> <<>>,
              mode |-> "off", arg |-> 0]
  IN IF s.tier = "bucket"
     THEN IF ok
          THEN [s EXCEPT !.pc = "bucket", !.bt = off,
                         !.pairs = @ \o SelectSeq(res, LAMBDA pr : pr[1] # pr[2]),
                         !.brackets = IF s.borrowed
                                      THEN [s.brackets EXCEPT ![s.idx + 1] = Tail(@)]
                                      ELSE s.brackets,
                         !.idx = @ + 1]
          ELSE [s EXCEPT !.pc = "attempt", !.bt = off, !.k = NextAttempt(@)]
     ELSE IF ok /\ res # <<>> /\ _valid(res \o SolverByeTail(s))
          THEN [s EXCEPT !.pc = "done", !.bt = off,
                         !.result = res \o SolverByeTail(s)]
          ELSE [s EXCEPT !.pc = "repair", !.bt = off, !.k = @ + 1]

\* one pass of greedy_pair's loop over i, and what follows its return
greedy_step(s) ==
  IF s.i > Len(s.work)
  THEN [s EXCEPT !.pc = "bucket", !.pairs = @ \o s.chosen, !.idx = @ + 1]
  ELSE IF s.i \in s.used THEN [s EXCEPT !.i = @ + 1]
  ELSE LET cands == {j \in (s.i + 1)..Len(s.work) :
                       j \notin s.used /\ s.work[j] # s.work[s.i]}
           fresh == {j \in cands : PairKey(s.work[s.i], s.work[j]) \notin s.prior}
           pick(S) == CHOOSE j \in S : \A k \in S : j <= k
           take(j) == [s EXCEPT !.used = @ \cup {s.i, j}, !.i = @ + 1,
                                !.chosen = Append(@, <<s.work[s.i], s.work[j]>>)]
       IN IF fresh # {} THEN take(pick(fresh))
          ELSE IF cands # {} THEN take(pick(cands))
          ELSE [s EXCEPT !.pc = "bucket", !.carry_down = s.work \o @, !.idx = @ + 1]

\* the bye appended and the final validation
validate(s) ==
  LET all == s.pairs \o SolverByeTail(s)
  IN IF _valid(all) THEN [s EXCEPT !.pc = "done", !.pairs = all, !.result = all]
     ELSE [s EXCEPT !.pc = "repair", !.pairs = all, !.k = 1,
                    !.pool = _dedupe(PoolOf(all)), !.tiers = @ \cup {"repair"}]

\* the loop over the repair seeds; once they are used up, the sanitizer
repair_step(s) ==
  IF s.k <= Len(RepairSeeds)
  THEN [s EXCEPT !.pc = "bt", !.tier = "repair",
                 !.bt = BtOn(Shuffled(RepairSeeds[s.k], s.pool))]
  ELSE [s EXCEPT !.pc = "sanitize", !.rest = s.pairs, !.used = {}, !.final = <<>>,
                 !.tiers = @ \cup {"sanitizer"}]

\* one pass of the sanitizer's loop over the pairs
sanitize_step(s) ==
  IF s.rest = <<>> THEN [s EXCEPT !.pc = "done", !.result = s.final]
  ELSE LET a == Head(s.rest)[1]
           b == Head(s.rest)[2]
           drop == [s EXCEPT !.rest = Tail(@)]
       IN IF a = b THEN drop
          ELSE IF b = BYE
          THEN IF a \in s.used THEN drop
               ELSE [s EXCEPT !.rest = Tail(@), !.used = @ \cup {a},
                              !.final = Append(@, <<a, b>>)]
          ELSE IF a \in s.used \/ b \in s.used THEN drop
          ELSE [s EXCEPT !.rest = Tail(@), !.used = @ \cup {a, b},
                         !.final = Append(@, <<a, b>>)]

SolverStep(next) ==
  /\ solver' = next
  /\ UNCHANGED <<doc, overrides, writer, race>>

SolveStart ==
  /\ solver.pc = "start"
  /\ SolverStep(solve_start(solver))

NextBucket ==
  /\ solver.pc = "bucket"
  /\ SolverStep(next_bucket(solver))

Attempt ==
  /\ solver.pc = "attempt"
  /\ SolverStep(attempt(solver))

BorrowOne ==
  /\ solver.pc = "borrow"
  /\ SolverStep(borrow_one(solver))

BtEnter ==
  /\ solver.bt.mode = "call"
  /\ solver.pc = "bt"
  /\ SolverStep([solver EXCEPT !.bt = bt_enter(@)])

BtIterate ==
  /\ solver.bt.mode = "loop"
  /\ solver.pc = "bt"
  /\ SolverStep([solver EXCEPT !.bt = bt_iterate(@, solver.prior)])

BtResume ==
  /\ solver.bt.mode = "false"
  /\ solver.bt.frames # <<>>
  /\ solver.pc = "bt"
  /\ SolverStep([solver EXCEPT !.bt = bt_resume(@)])

BtReturn ==
  /\ solver.bt.mode = "true" \/ (solver.bt.mode = "false" /\ solver.bt.frames = <<>>)
  /\ solver.pc = "bt"
  /\ SolverStep(bt_return(solver))

GreedyStep ==
  /\ solver.pc = "greedy"
  /\ SolverStep(greedy_step(solver))

Validate ==
  /\ solver.pc = "validate"
  /\ SolverStep(validate(solver))

RepairStep ==
  /\ solver.pc = "repair"
  /\ SolverStep(repair_step(solver))

SanitizeStep ==
  /\ solver.pc = "sanitize"
  /\ SolverStep(sanitize_step(solver))

\* ids named in order of first appearance: the solver compares ids only
\* for equality
FirstSeen(flat) ==
  \A k \in DOMAIN flat : flat[k] <= 1 + Cardinality({flat[h] : h \in 1..(k - 1)})

\* flat cut into b brackets, empty ones included
RECURSIVE CutInto(_, _)
CutInto(flat, b) ==
  IF b = 0 THEN IF flat = <<>> THEN {<<>>} ELSE {}
  ELSE UNION {{<<SubSeq(flat, 1, c)>> \o rest :
                 rest \in CutInto(SubSeq(flat, c + 1, Len(flat)), b - 1)} :
              c \in 0..Len(flat)}

\* the lists of at most SolveBrackets brackets over at most SolvePlayers
\* seats, an id possibly seated more than once
BracketLists ==
  UNION {CutInto(flat, b) :
           flat \in {f \in SeqsUpTo(1..SolvePlayers, SolvePlayers) : FirstSeen(f)},
           b \in 0..SolveBrackets}

\* the sets of prior pairs among the ids seated in the brackets: the
\* solver looks up no other pair
PriorSets(brackets) ==
  LET seated == UNION {Range(brackets[k]) : k \in DOMAIN brackets}
  IN SUBSET {pr \in seated \X seated : pr[1] < pr[2]}

InitSolve ==
  /\ doc = NewTournament(0, 0)
  /\ overrides = 0
  /\ writer = "create_tournament"
  /\ race = NoRace
  /\ \E brackets \in BracketLists :
       \E prior \in PriorSets(brackets) : solver = Solving(brackets, prior)

NextSolve ==
  \/ SolveStart \/ NextBucket \/ Attempt \/ BorrowOne
  \/ BtEnter \/ BtIterate \/ BtResume \/ BtReturn
  \/ GreedyStep \/ Validate \/ RepairStep \/ SanitizeStep

SpecSolve == InitSolve /\ [][NextSolve]_vars

\* ================================================================ claims
\* helpers of the claims
Latest == doc.rounds[Len(doc.rounds)]

LatestPending ==
  doc.rounds # <<>> /\ \E j \in DOMAIN Latest.matches : Latest.matches[j].r = "PENDING"

LatestRecorded ==
  doc.rounds # <<>> /\ \E j \in DOMAIN Latest.matches : Latest.matches[j].r \in RealOutcomes

Roster == {doc.players[i].id : i \in DOMAIN doc.players}

\* the competitors seated in a match
Seated(m) == IF m.b = None THEN {m.a} ELSE {m.a, m.b}

\* table, competitors and bye of every match of a match list
Seats(matches) ==
  [j \in DOMAIN matches |-> <<matches[j].t, matches[j].a, matches[j].b, matches[j].r = "BYE">>]

\* the document without its latest round
Before == [doc EXCEPT !.rounds = SubSeq(doc.rounds, 1, Len(doc.rounds) - 1)]

MetBefore == prior_pairs_set(Before)

\* some perfect matching of S pairs nobody with a competitor in met
RECURSIVE FreshMatchingExists(_, _)
FreshMatchingExists(S, met) ==
  IF S = {} THEN TRUE
  ELSE LET x == CHOOSE y \in S : \A z \in S : y <= z
       IN \E y \in S \ {x} :
            /\ PairKey(x, y) \notin met
            /\ FreshMatchingExists(S \ {x, y}, met)

FreshlyPaired == writer \in {"pair_next", "restart_round"}

\* C1: at most one round contains a PENDING match, and such a round is the
\* latest round of the document.
C1_OnlyLatestPending ==
  \A i \in DOMAIN doc.rounds :
    RoundPending(doc.rounds[i]) => i = Len(doc.rounds)

C1_Witness ==
  /\ Len(doc.rounds) >= 2
  /\ LatestPending
  /\ writer \in {"override_pair", "restart_round"}
  /\ \E j \in DOMAIN doc.rounds[1].matches : doc.rounds[1].matches[j].r \in RealOutcomes

\* C2: in every stored round no competitor is seated in two matches and no
\* match pairs a competitor with themselves, whatever the history.
C2_ValidMatching ==
  \A i \in DOMAIN doc.rounds :
    LET ms == doc.rounds[i].matches
    IN /\ \A j \in DOMAIN ms : ms[j].a # ms[j].b
       /\ \A j, k \in DOMAIN ms : j # k => Seated(ms[j]) \cap Seated(ms[k]) = {}

\* a round stored after every competitor had already met every other
C2_Witness ==
  /\ Len(doc.rounds) >= 2
  /\ Cardinality(Roster) >= 2
  /\ writer \in {"pair_next", "restart_round", "override_pair"}
  /\ \A x, y \in Roster : x < y => <<x, y>> \in MetBefore

\* C3: a round produced by pair-next seats every competitor exactly once:
\* N/2 two-player matches and no bye for an even roster, (N-1)/2 two-player
\* matches and exactly one bye match for an odd roster.
C3_FullRound ==
  FreshlyPaired =>
    LET ms == Latest.matches
        N == Cardinality(Roster)
        real == {j \in DOMAIN ms : ms[j].b # None}
        byes == {j \in DOMAIN ms : ms[j].b = None /\ ms[j].r = "BYE"}
    IN /\ \A p \in Roster : Cardinality({j \in DOMAIN ms : p \in Seated(ms[j])}) = 1
       /\ \A j \in real : ms[j].a \in Roster /\ ms[j].b \in Roster /\ ms[j].a # ms[j].b
       /\ Cardinality(real) = N \div 2
       /\ Cardinality(byes) = N % 2
       /\ Len(ms) = Cardinality(real) + Cardinality(byes)

\* a third round of an odd roster, paired on two rounds of results
C3_Witness ==
  /\ FreshlyPaired
  /\ Len(doc.rounds) = 3
  /\ Cardinality(Roster) = 3
  /\ \E j \in DOMAIN doc.rounds[2].matches : doc.rounds[2].matches[j].r \in {"A", "B"}

\* C4: whenever the competitors to be paired (all but the bye recipient)
\* admit a perfect matching of pairs that have not met in an earlier round,
\* the round produced by pair-next contains no rematch.
C4_NoAvoidableRematch ==
  FreshlyPaired =>
    LET ms == Latest.matches
        toPair == Roster \ {ms[j].a : j \in {k \in DOMAIN ms : ms[k].b = None}}
    IN FreshMatchingExists(toPair, MetBefore) =>
         \A j \in DOMAIN ms : ms[j].b # None => PairKey(ms[j].a, ms[j].b) \notin MetBefore

\* C5: a match's outcome is BYE exactly when its second competitor is
\* absent; a bye match never takes a real outcome.
C5_ByeIffNoOpponent ==
  \A i \in DOMAIN doc.rounds :
    \A j \in DOMAIN doc.rounds[i].matches :
      (doc.rounds[i].matches[j].r = "BYE") <=> (doc.rounds[i].matches[j].b = None)

\* C6: the number of rounds of the document and current_round_number never
\* exceed total_rounds.
C6_RoundsWithinTotal ==
  /\ Len(doc.rounds) <= doc.total_rounds
  /\ current_round_number(doc) <= doc.total_rounds

\* C7 as stated: once any match of the latest round has a recorded result,
\* restart-round refuses and leaves the document unchanged.
C7_Original ==
  LatestRecorded =>
    /\ ~api_restart_round(doc).ok
    /\ api_restart_round(doc).t = doc

\* C7 amended: once no match of the latest round is PENDING, restart-round
\* refuses and leaves the document unchanged; while a match is PENDING it
\* is served, recorded results of the round notwithstanding.
C7_RefusedWhenNothingPending ==
  /\ (doc.rounds # <<>> /\ ~LatestPending) =>
       /\ ~api_restart_round(doc).ok
       /\ ~api_restart_round(doc).saved
       /\ api_restart_round(doc).t = doc
  /\ LatestPending => api_restart_round(doc).ok

\* a round with recorded results and nothing pending, restart refused
C7_Witness ==
  /\ LatestRecorded
  /\ ~LatestPending
  /\ ~api_restart_round(doc).ok

\* C8: restart-round with rounds R1..Rk below the active round keeps R1..Rk
\* as they are and yields a document of k+1 rounds whose latest round is
\* numbered k+1.
C8_RestartFrame ==
  LatestPending =>
    LET out == api_restart_round(doc)
        k == Len(doc.rounds) - 1
    IN /\ out.ok
       /\ Len(out.t.rounds) = k + 1
       /\ SubSeq(out.t.rounds, 1, k) = SubSeq(doc.rounds, 1, k)
       /\ out.t.rounds[k + 1].n = k + 1
       /\ out.t.players = doc.players
       /\ out.t.total_rounds = doc.total_rounds

\* an active second round with results in it, above a played first round
C8_Witness ==
  /\ Len(doc.rounds) = 2
  /\ LatestPending
  /\ LatestRecorded
  /\ \E j \in DOMAIN doc.rounds[1].matches : doc.rounds[1].matches[j].r \in RealOutcomes

\* C9: restart-round re-derives the round: its tables, pairs and bye are
\* those pair-next produces on the document without the active round, so a
\* second restart-round reproduces the first.
C9_RestartRederives ==
  LatestPending =>
    LET again == api_restart_round(doc).t
    IN /\ Seats(again.rounds[Len(again.rounds)].matches) = Seats(pair_next(Before).matches)
       /\ again.rounds[Len(again.rounds)].n = pair_next(Before).n
       /\ writer = "restart_round" =>
            Seats(again.rounds[Len(again.rounds)].matches) = Seats(Latest.matches)

\* a restarted second round whose first round has results
C9_Witness ==
  /\ writer = "restart_round"
  /\ Len(doc.rounds) = 2
  /\ Cardinality(Roster) >= 3
  /\ \E j \in DOMAIN doc.rounds[1].matches : doc.rounds[1].matches[j].r \in {"A", "B"}

\* C10: pair-next while the latest round has a PENDING match, or while
\* current_round_number >= total_rounds, is refused and leaves the document
\* unchanged.
C10_PairNextRefused ==
  (LatestPending \/ current_round_number(doc) >= doc.total_rounds) =>
    /\ ~api_pair_next(doc).ok
    /\ ~api_pair_next(doc).saved
    /\ api_pair_next(doc).t = doc

\* every round played and none pending: the tournament is complete
C10_Witness ==
  /\ ~LatestPending
  /\ Len(doc.rounds) = doc.total_rounds
  /\ ~api_pair_next(doc).ok

\* the points standings report for competitor p of document t
PointsOf(t, p) == _standings_maps(t)[p].pts

\* the matches of the log that p won: a bye, or a two-competitor match
\* recorded in p's favour
WonBy(t, p) ==
  {pos \in MatchPos(t) :
     LET m == MatchAt(t, pos)
     IN \/ m.r = "BYE" /\ m.a = p
        \/ m.b # None /\ m.r = "A" /\ m.a = p
        \/ m.b # None /\ m.r = "B" /\ m.b = p}

\* the document after finalize-round records a TIE for match j of the
\* latest round
TieOn(j) ==
  api_finalize_round(doc, <<[match_id |-> Latest.matches[j].id, outcome |-> "TIE"]>>).t

\* C11: the points of every competitor are 3 times the number of matches
\* won (real wins and byes), so losses, ties and PENDING matches add
\* nothing; recording a TIE for a match never increases the points of
\* either side, and leaves them as they are when the match was PENDING.
C11_PointsFromWins ==
  /\ \A p \in Roster : PointsOf(doc, p) = 3 * Cardinality(WonBy(doc, p))
  /\ doc.rounds # <<>> =>
       \A j \in DOMAIN Latest.matches :
         \A p \in Seated(Latest.matches[j]) :
           /\ PointsOf(TieOn(j), p) <= PointsOf(doc, p)
           /\ Latest.matches[j].r = "PENDING" => PointsOf(TieOn(j), p) = PointsOf(doc, p)

\* a competitor with a bye and a real win, a tie on record and a match
\* still PENDING
C11_Witness ==
  /\ \E p \in Roster :
       /\ PointsOf(doc, p) = 6
       /\ \E pos \in WonBy(doc, p) : MatchAt(doc, pos).r = "BYE"
       /\ \E pos \in WonBy(doc, p) : MatchAt(doc, pos).r \in {"A", "B"}
  /\ \E pos \in MatchPos(doc) : MatchAt(doc, pos).r = "TIE"
  /\ \E pos \in MatchPos(doc) : MatchAt(doc, pos).r = "B"

\* the document after finalize-round records outcome A for match j of the
\* latest round
WinOn(j) ==
  api_finalize_round(doc, <<[match_id |-> Latest.matches[j].id, outcome |-> "A"]>>).t

RealWins(t, p) == wins_excl_bye(rebuild_graph(t)[p])

LossPenalty(t, p) == loss_penalty(rebuild_graph(t)[p])

\* C12 as stated: finalizing a PENDING match of round n with A winning
\* raises A's real wins by exactly 1 and B's loss_penalty by exactly n
\* squared.
C12_Original ==
  doc.rounds # <<>> =>
    \A j \in DOMAIN Latest.matches :
      LET m == Latest.matches[j]
      IN (m.r = "PENDING" /\ m.b # None) =>
           /\ RealWins(WinOn(j), m.a) = RealWins(doc, m.a) + 1
           /\ LossPenalty(WinOn(j), m.b) = LossPenalty(doc, m.b) + Latest.n * Latest.n

\* C12 amended: finalizing a PENDING match of round n with A winning raises
\* A's real wins by exactly 1, and B's loss_penalty becomes the smaller of
\* 999 and its former value plus n squared.
C12_WinAndCappedPenalty ==
  doc.rounds # <<>> =>
    \A j \in DOMAIN Latest.matches :
      LET m == Latest.matches[j]
      IN (m.r = "PENDING" /\ m.b # None) =>
           /\ RealWins(WinOn(j), m.a) = RealWins(doc, m.a) + 1
           /\ LossPenalty(WinOn(j), m.b) =
                Min2(999, LossPenalty(doc, m.b) + Latest.n * Latest.n)

\* a PENDING match whose loss would carry the penalty of B past the cap
C12_Witness ==
  /\ doc.rounds # <<>>
  /\ \E j \in DOMAIN Latest.matches :
       LET m == Latest.matches[j]
       IN /\ m.r = "PENDING" /\ m.b # None
          /\ LossPenalty(doc, m.b) < 999
          /\ LossPenalty(doc, m.b) + Latest.n * Latest.n > 999
          /\ LossPenalty(WinOn(j), m.b) = 999

\* int(s) of a digit string; the empty string stands for 0
RECURSIVE Value(_)
Value(d) == IF d = <<>> THEN 0 ELSE 10 * Value(Front(d)) + Last(d)

\* the key parsed back: the last three groups of three digits, and the
\* leading digits that remain
KeyParts(kts) ==
  LET n == Len(kts)
  IN <<Value(SubSeq(kts, 1, n - 9)), Value(SubSeq(kts, n - 8, n - 6)),
       Value(SubSeq(kts, n - 5, n - 3)), Value(SubSeq(kts, n - 2, n))>>

StandingsRows == _standings_maps(doc)

\* C13: the composite key of every standings row parses back to the four
\* values it was built from: points in the leading digits, then the three
\* components, each within 0..999, in groups of three digits.
C13_KeyRoundTrips ==
  \A i \in DOMAIN StandingsRows :
    LET row == StandingsRows[i]
    IN /\ row.bbb \in 0..999 /\ row.ccc \in 0..999 /\ row.ddd \in 0..999
       /\ Len(row.kts) >= 10
       /\ KeyParts(row.kts) = <<row.pts, row.bbb, row.ccc, row.ddd>>

\* points of two digits, a component at its upper clamp and a component
\* that needs zero padding, in one table
C13_Witness ==
  /\ \E i \in DOMAIN StandingsRows : StandingsRows[i].pts >= 10
  /\ \E i \in DOMAIN StandingsRows :
       /\ StandingsRows[i].bbb = 999
       /\ StandingsRows[i].ddd \in 1..99

\* the key read as one integer, held in two limbs: the digits above the
\* last six, and the last six
KeyInt(kts) ==
  <<Value(SubSeq(kts, 1, Len(kts) - 6)), Value(SubSeq(kts, Len(kts) - 5, Len(kts)))>>

KeyGreater(x, y) ==
  KeyInt(x)[1] > KeyInt(y)[1] \/ (KeyInt(x)[1] = KeyInt(y)[1] /\ KeyInt(x)[2] > KeyInt(y)[2])

RosterIndex(p) == CHOOSE i \in DOMAIN doc.players : doc.players[i].id = p

\* the rows are ranked by descending key, equal keys in roster order
RankedByKey(rows) ==
  /\ DOMAIN rows = 1..Cardinality(Roster)
  /\ \A p \in Roster : Cardinality({i \in DOMAIN rows : rows[i].player_id = p}) = 1
  /\ \A i, j \in DOMAIN rows :
       i < j =>
         \/ KeyGreater(rows[i].kts, rows[j].kts)
         \/ /\ rows[i].kts = rows[j].kts
            /\ RosterIndex(rows[i].player_id) < RosterIndex(rows[j].player_id)

\* C14: standings gives the ranks 1..N, one to each competitor, by
\* descending composite key read as one integer, and competitors of equal
\* key keep their roster order.
C14_RankedByKey == RankedByKey(compute_standings(doc))

\* a table with a tie on the key, a strict difference, and a leader who is
\* not first in the roster
TieAndLeader(rows) ==
  /\ Len(rows) >= 3
  /\ \E i, j \in DOMAIN rows : i < j /\ rows[i].kts = rows[j].kts
  /\ \E i, j \in DOMAIN rows : KeyGreater(rows[i].kts, rows[j].kts)
  /\ rows[1].player_id # doc.players[1].id

C14_Witness == TieAndLeader(compute_standings(doc))

PointsDecide(rows) ==
  \A i, j \in DOMAIN rows : rows[i].pts > rows[j].pts => i < j

\* C15: in standings a competitor with strictly more points is ranked
\* strictly better than one with fewer points, whatever the other
\* components of their keys.
C15_MorePointsRanksHigher == PointsDecide(compute_standings(doc))

\* a competitor ranked above another on points alone: each of its other
\* key components is no greater, and one is smaller
AheadOnPointsOnly(rows) ==
  \E i, j \in DOMAIN rows :
    /\ i < j
    /\ rows[i].pts > rows[j].pts
    /\ rows[i].bbb < rows[j].bbb
    /\ rows[i].ccc <= rows[j].ccc
    /\ rows[i].ddd <= rows[j].ddd

C15_Witness == Cardinality(Roster) >= 3 /\ AheadOnPointsOnly(compute_standings(doc))

\* the byes on record for competitor p in document t
ByesReceived(t, p) ==
  Cardinality({pos \in MatchPos(t) : MatchAt(t, pos).r = "BYE" /\ MatchAt(t, pos).a = p})

\* p is not after q in the order (points, byes received, key, name), all
\* ascending, on the document t whose standings rows are given
ByeOrderLeq(t, rows, p, q) ==
  LET pp == 3 * Cardinality(WonBy(t, p))
      pq == 3 * Cardinality(WonBy(t, q))
      bp == ByesReceived(t, p)
      bq == ByesReceived(t, q)
  IN \/ pp < pq
     \/ /\ pp = pq
        /\ \/ bp < bq
           \/ /\ bp = bq
              /\ \/ KeyGreater(rows[q].kts, rows[p].kts)
                 \/ /\ rows[q].kts = rows[p].kts
                    /\ NameOf(t, p) <= NameOf(t, q)

\* the bye matches of the latest round
LatestByes == {j \in DOMAIN Latest.matches : Latest.matches[j].b = None}

\* the one bye of the round went to a minimal competitor, who sits in no
\* other match of the round
ByeToMinimal(rows) ==
  \E j \in LatestByes :
    /\ LatestByes = {j}
    /\ \A q \in Roster : ByeOrderLeq(Before, rows, Latest.matches[j].a, q)
    /\ \A k \in DOMAIN Latest.matches :
         k # j => Latest.matches[j].a \notin Seated(Latest.matches[k])

\* C16: for an odd roster the bye of a round produced by pair-next goes to
\* the competitor minimal under (points, byes already received, composite
\* key, name), each ascending, taken on the document before the round, and
\* that competitor is in no pair of the round.
C16_ByeToMinimal ==
  (FreshlyPaired /\ Cardinality(Roster) % 2 = 1) => ByeToMinimal(_standings_maps(Before))

\* the number of byes decides: the recipient has as many points as a
\* competitor who already had a bye, and fewer byes; the names run
\* against the roster order
C16_Witness ==
  /\ FreshlyPaired
  /\ Cardinality(Roster) = 3
  /\ doc.players[1].name > doc.players[2].name
  /\ \E j \in LatestByes :
       \E q \in Roster :
         /\ Cardinality(WonBy(Before, q)) = Cardinality(WonBy(Before, Latest.matches[j].a))
         /\ ByesReceived(Before, q) > ByesReceived(Before, Latest.matches[j].a)

\* C17: whenever some competitor has not yet received a bye, the bye of a
\* round produced by pair-next goes to a competitor who has not yet
\* received one.
C17_NoSecondByeWhileOthersHadNone ==
  (FreshlyPaired /\ Cardinality(Roster) % 2 = 1
     /\ \E q \in Roster : ByesReceived(Before, q) = 0) =>
    \A j \in LatestByes : ByesReceived(Before, Latest.matches[j].a) = 0

\* ---------------------------------------------------------------- C18
\* every request has answered, and each had loaded before any save
Overlapped ==
  \A r \in Requests : race.pc[r] = "done" /\ race.seen[r] = 0

\* the loaded document has no active round and rounds left to play
Admitted(t) ==
  ~round_has_pending(t) /\ current_round_number(t) < t.total_rounds

AllIds(t) ==
  UNION {{t.rounds[k].matches[j].id : j \in DOMAIN t.rounds[k].matches} :
         k \in DOMAIN t.rounds}

LastWriteWins(last, base) ==
  /\ Len(race.saves) = Cardinality(Requests)
  /\ \A r \in Requests : /\ race.reply[r].ok
                         /\ race.reply[r].round = current_round_number(base) + 1
  /\ Len(doc.rounds) = Len(base.rounds) + 1
  /\ SubSeq(doc.rounds, 1, Len(base.rounds)) = base.rounds
  /\ latest_round(doc).n = race.reply[last].round
  /\ LatestIds(doc) = race.reply[last].ids
  /\ \A r \in Requests \ {last} :
       /\ race.reply[r].ids # {}
       /\ race.reply[r].ids \cap AllIds(doc) = {}

\* C18: when two pair-next requests have both loaded the document before
\* either saved, and the loaded document admits a new round, both report
\* success for the same round number, the stored document holds the loaded
\* rounds followed by exactly one new round, that of the request that saved
\* last, and no match id reported to the other request is in the document.
C18_LastWriteWins ==
  (Overlapped /\ \A r \in Requests : Admitted(race.t[r]))
    => LastWriteWins(race.saves[Len(race.saves)],
                     race.t[race.saves[Len(race.saves)]])

\* both requests paired round 2 of three or more competitors; request 2
\* saved first and request 1 last
C18_Witness ==
  /\ Overlapped
  /\ race.saves = <<2, 1>>
  /\ \A r \in Requests : race.reply[r].ok /\ race.reply[r].round = 2
  /\ Len(doc.players) >= 3
  /\ Len(doc.rounds) = 2

\* ---------------------------------------------------------------- C19
\* the step the solver takes from s
SolverNext(s) ==
  CASE s.pc = "start" -> solve_start(s)
    [] s.pc = "bucket" -> next_bucket(s)
    [] s.pc = "attempt" -> attempt(s)
    [] s.pc = "borrow" -> borrow_one(s)
    [] s.pc = "bt" /\ s.bt.mode = "call" -> [s EXCEPT !.bt = bt_enter(@)]
    [] s.pc = "bt" /\ s.bt.mode = "loop" -> [s EXCEPT !.bt = bt_iterate(@, s.prior)]
    [] s.pc = "bt" /\ s.bt.mode = "false" /\ s.bt.frames # <<>> ->
         [s EXCEPT !.bt = bt_resume(@)]
    [] s.pc = "bt" /\ (s.bt.mode = "true" \/ (s.bt.mode = "false" /\ s.bt.frames = <<>>)) ->
         bt_return(s)
    [] s.pc = "greedy" -> greedy_step(s)
    [] s.pc = "validate" -> validate(s)
    [] s.pc = "repair" -> repair_step(s)
    [] s.pc = "sanitize" -> sanitize_step(s)

\* how far a backtracking has come, as a vector that grows in the
\* lexicographic order with every step: whether it has returned, then per
\* depth of the recursion the partner position j of that call, marked as
\* tried (0: the inner call is running, 1: it returned False, 2: the loop
\* has moved past j)
BtProgress(b) ==
  LET d == Len(b.frames)
      digit(k) == IF k > d THEN 0
                  ELSE 3 * b.frames[k].j
                       + (IF k < d \/ b.mode = "call" THEN 0
                          ELSE IF b.mode = "false" THEN 1 ELSE 2)
      returned == IF b.mode = "true" \/ (b.mode = "false" /\ d = 0) THEN 1 ELSE 0
  IN <<returned>> \o [k \in 1..(SolvePlayers + 1) |-> digit(k)]

\* the work left to the solver, as a vector of naturals: the tier, the
\* brackets (seeds, pairs) left, the phase within the bracket, the
\* orderings (greedy positions) left, whether the ordering is about to be
\* tried, and the backtracking still ahead
SolverRank(s) ==
  LET top == 3 * (SolvePlayers + 1) + 2
      ahead == [k \in 1..(SolvePlayers + 2) |-> top - BtProgress(s.bt)[k]]
      none == [k \in 1..(SolvePlayers + 2) |-> 0]
      inRepair == s.pc = "repair" \/ (s.pc = "bt" /\ s.tier = "repair")
  IN CASE s.pc = "start" -> <<5, 0, 0, 0, 0>> \o none
       [] s.pc = "validate" -> <<3, 0, 0, 0, 0>> \o none
       [] s.pc = "repair" -> <<2, Len(RepairSeeds) + 1 - s.k, 1, 0, 0>> \o none
       [] s.pc = "bt" /\ s.tier = "repair" ->
            <<2, Len(RepairSeeds) + 1 - s.k, 0, 0, 0>> \o ahead
       [] s.pc = "sanitize" -> <<1, Len(s.rest), 0, 0, 0>> \o none
       [] s.pc = "done" -> <<0, 0, 0, 0, 0>> \o none
       [] s.pc = "bucket" -> <<4, Len(s.brackets) + 1 - s.idx, 5, 0, 0>> \o none
       [] s.pc = "attempt" ->
            <<4, Len(s.brackets) + 1 - s.idx, IF s.borrowed THEN 2 ELSE 4,
              Len(s.cands) + 1 - s.k, 1>> \o none
       [] s.pc = "bt" /\ s.tier = "bucket" ->
            <<4, Len(s.brackets) + 1 - s.idx, IF s.borrowed THEN 2 ELSE 4,
              Len(s.cands) + 1 - s.k, 0>> \o ahead
       [] s.pc = "borrow" -> <<4, Len(s.brackets) + 1 - s.idx, 3, 0, 0>> \o none
       [] s.pc = "greedy" ->
            <<4, Len(s.brackets) + 1 - s.idx, 1, Len(s.work) + 1 - s.i, 0>> \o none

\* x comes before y in the lexicographic order
LexLess(x, y) ==
  \E k \in DOMAIN x : x[k] < y[k] /\ \A h \in 1..(k - 1) : x[h] = y[h]

Descends(after, before) ==
  /\ \A k \in DOMAIN before : before[k] \in Nat
  /\ \A k \in DOMAIN after : after[k] \in Nat
  /\ LexLess(after, before)

\* C19: the pairing solver terminates: on any list of brackets and any
\* set of prior pairs, as long as it has not returned it has a next step
\* (an ordering tried by backtracking, the borrow, a greedy pass, a repair
\* seed, a sanitizer pass), and every step strictly lowers a vector of
\* naturals in the lexicographic order, so no run goes on for ever.
C19_SolverTerminates ==
  solver.pc \notin {"idle", "done"}
    => Descends(SolverRank(SolverNext(solver)), SolverRank(solver))

\* the solver has returned after the orderings, the borrow and the greedy
\* pass all failed on some bracket and the repair gave way to the sanitizer
C19_Witness ==
  /\ solver.pc = "done"
  /\ solver.tiers = {"orderings", "borrow", "greedy", "repair", "sanitizer"}

\* ---------------------------------------------------------------- C20
\* every round below the latest one, before or after the step, is the
\* same round at the same place on the other side of the step
RoundsKept(before, after) ==
  /\ \A k \in 1..(Len(after.rounds) - 1) :
       k <= Len(before.rounds) /\ after.rounds[k] = before.rounds[k]
  /\ \A k \in 1..(Len(before.rounds) - 1) :
       k <= Len(after.rounds) /\ after.rounds[k] = before.rounds[k]

\* the same rounds with the same matches, ids, tables and competitors
SameCompetitors(before, after) ==
  /\ Len(after.rounds) = Len(before.rounds)
  /\ \A k \in DOMAIN before.rounds :
       /\ after.rounds[k].n = before.rounds[k].n
       /\ Len(after.rounds[k].matches) = Len(before.rounds[k].matches)
       /\ \A j \in DOMAIN before.rounds[k].matches :
            /\ after.rounds[k].matches[j].id = before.rounds[k].matches[j].id
            /\ after.rounds[k].matches[j].t = before.rounds[k].matches[j].t
            /\ after.rounds[k].matches[j].a = before.rounds[k].matches[j].a
            /\ after.rounds[k].matches[j].b = before.rounds[k].matches[j].b

\* the step stored a document changed by finalize-round
FinalizeStep == writer' = "finalize_round" /\ doc' # doc

\* C20: every step of pair-next, restart-round, override-pair and
\* finalize-round leaves the rounds below the latest one as they were and
\* where they were; a finalize-round step keeps the number of rounds and
\* every match's id, table and competitors, so that it changes outcomes of
\* the latest round only.
C20_EarlierRoundsFrozen ==
  [][/\ RoundsKept(doc, doc')
     /\ FinalizeStep => SameCompetitors(doc, doc')]_vars

\* a second round with a result recorded by a finalize-round whose batch
\* could also name the matches of the first round
C20_Witness ==
  /\ Len(doc.rounds) = 2
  /\ writer = "finalize_round"
  /\ \E j \in DOMAIN Latest.matches : Latest.matches[j].r \in RealOutcomes
  /\ \E j \in DOMAIN doc.rounds[1].matches : doc.rounds[1].matches[j].r \in RealOutcomes

\* ---------------------------------------------------------------- C21
\* the latest round after finalize-round on a one-entry batch
FinalizedWith(id, outcome) ==
  latest_round(api_finalize_round(doc, <<[match_id |-> id, outcome |-> outcome]>>).t)

\* C21: finalize-round changes a match's outcome only if the match is
\* PENDING: a match of the latest round with a recorded result (A, B or
\* TIE) keeps it whatever outcome a later batch names for it.
C21_RecordedResultKept ==
  HasRounds(doc) =>
    \A j \in DOMAIN Latest.matches : \A outcome \in RealOutcomes :
      Latest.matches[j].r \in RealOutcomes
        => FinalizedWith(Latest.matches[j].id, outcome).matches[j].r = Latest.matches[j].r

\* ---------------------------------------------------------------- C22
\* the entry names a match of the latest round with an outcome A, B or TIE
ValidEntry(t, e) == e.match_id \in LatestIds(t) /\ e.outcome \in RealOutcomes

\* the latest round with, for every match, the outcome of the last valid
\* entry of the batch that names it, if there is one
ValidApplied(t, results) ==
  [j \in DOMAIN latest_round(t).matches |->
     LET m == latest_round(t).matches[j]
         naming == {k \in DOMAIN results :
                      ValidEntry(t, results[k]) /\ results[k].match_id = m.id}
         last == CHOOSE k \in naming : \A h \in naming : h <= k
     IN IF naming = {} THEN m ELSE [m EXCEPT !.r = results[last].outcome]]

IgnoresInvalid(t, results) ==
  api_finalize_round(t, results).t =
    [t EXCEPT !.rounds[Len(t.rounds)].matches = ValidApplied(t, results)]

\* C22: in a finalize-round batch an entry whose match_id is not a match
\* of the latest round, or whose outcome is not A, B or TIE, changes
\* nothing in the document, and the valid entries of the same batch are
\* applied all the same, before and after it.
C22_InvalidEntriesIgnored ==
  HasRounds(doc) =>
    \A results \in SeqsUpTo(ResultEntries(doc) \cup StaleEntries(doc), MaxBatch) \ {<<>>} :
      IgnoresInvalid(doc, results)

\* a latest round of two tables where a batch recorded one result and left
\* the other match PENDING, under a first round whose matches a batch can
\* name
C22_Witness ==
  /\ writer = "finalize_round"
  /\ Len(doc.rounds) = 2
  /\ \E i, j \in DOMAIN Latest.matches :
       /\ Latest.matches[i].r \in RealOutcomes
       /\ Latest.matches[j].r = "PENDING"

\* ---------------------------------------------------------------- C23
\* the solver has just borrowed and is about to retry the orderings
BorrowRetry == solver.pc = "attempt" /\ solver.borrowed /\ solver.k = 1

\* the competitor at the front of the next bracket
Borrowed == Head(solver.brackets[solver.idx + 1])

\* the borrowed retry has just paired the bracket
BorrowPaid ==
  /\ solver.pc = "bt"
  /\ solver.tier = "bucket"
  /\ solver.borrowed
  /\ solver.bt.mode = "true"

\* C23: when the orderings of a bracket's working set all fail and the
\* next bracket is non-empty, the retry runs on the working set plus
\* exactly one borrowed competitor, the front of the next bracket; when the
\* retry succeeds, the borrowed competitor is in one of its pairs, none of
\* its pairs is a rematch, and the borrowed competitor leaves the next
\* bracket.
C23_BorrowJoinsRetry ==
  /\ BorrowRetry =>
       /\ Borrowed \in Range(solver.cands[1])
       /\ Range(solver.cands[1]) = Range(solver.work) \cup {Borrowed}
  /\ BorrowPaid =>
       /\ \E k \in DOMAIN solver.bt.res : Borrowed \in Range(solver.bt.res[k])
       /\ \A k \in DOMAIN solver.bt.res :
            PairKey(solver.bt.res[k][1], solver.bt.res[k][2]) \notin solver.prior
       /\ Borrowed \notin Range(SolverNext(solver).brackets[solver.idx + 1])

\* ---------------------------------------------------------------- C24
\* the perfect matchings of the positions in S that pair no two members
\* who have met, each as the sequence of its pairs in order of the lower
\* position
RECURSIVE FreshMatchings(_, _, _)
FreshMatchings(order, prior, S) ==
  IF S = {} THEN {<<>>}
  ELSE LET i == CHOOSE k \in S : \A k2 \in S : k <= k2
       IN UNION {{<<<<i, j>>>> \o m : m \in FreshMatchings(order, prior, S \ {i, j})} :
                 j \in {k \in S \ {i} : /\ order[i] # order[k]
                                        /\ PairKey(order[i], order[k]) \notin prior}}

\* the partner positions of a matching, in order of the lower position
Partners(m) == [k \in DOMAIN m |-> m[k][2]]

\* x is not after y in the lexicographic order
LexLeq(x, y) ==
  x = y \/ \E k \in DOMAIN x : x[k] < y[k] /\ \A h \in 1..(k - 1) : x[h] = y[h]

Earliest(Ms) == CHOOSE m \in Ms : \A m2 \in Ms : LexLeq(Partners(m), Partners(m2))

EarliestReturned(order, Ms, b) ==
  IF Ms = {} THEN b.mode = "false"
  ELSE /\ b.mode = "true"
       /\ b.res = [k \in DOMAIN Earliest(Ms) |->
                     <<order[Earliest(Ms)[k][1]], order[Earliest(Ms)[k][2]]>>]

\* C24: on a working set in rank order the backtracking fails only if no
\* perfect matching without a rematch exists, and else returns the
\* lexicographically earliest one: the lowest unpaired position takes the
\* earliest partner it has not met with which the rest can be completed;
\* when no two members have met the result is 1 v 2, 3 v 4, ...
C24_EarliestFreshMatching ==
  (solver.pc = "bt" /\ solver.bt.mode \in {"true", "false"} /\ solver.bt.frames = <<>>)
    => /\ EarliestReturned(solver.bt.order,
                           FreshMatchings(solver.bt.order, solver.prior,
                                          DOMAIN solver.bt.order),
                           solver.bt)
       /\ (solver.prior = {} /\ Len(solver.bt.order) % 2 = 0)
            => solver.bt.res = [k \in 1..(Len(solver.bt.order) \div 2) |->
                                  <<solver.bt.order[2 * k - 1], solver.bt.order[2 * k]>>]

\* six members of whom 1 has met 2 and 3, and 4 has met 5 and 6: the
\* backtracking returned 1 v 4, 2 v 5, 3 v 6 after giving up on 1 v 4,
\* 2 v 3
C24_Witness ==
  /\ solver.pc = "bt"
  /\ solver.bt.mode = "true"
  /\ Len(solver.bt.order) = 6
  /\ solver.prior = {<<1, 2>>, <<1, 3>>, <<4, 5>>, <<4, 6>>, <<5, 6>>}
  /\ solver.bt.res = <<<<1, 4>>, <<2, 5>>, <<3, 6>>>>

\* ---------------------------------------------------------------- C25
\* the round stored by a successful override-pair seats a against b at
\* table 1, PENDING, and seats neither of them anywhere else
ForcedAtTableOne(rnd, a, b) ==
  /\ rnd.matches # <<>>
  /\ rnd.matches[1].a = a
  /\ rnd.matches[1].b = b
  /\ rnd.matches[1].t = 1
  /\ rnd.matches[1].r = "PENDING"
  /\ \A j \in DOMAIN rnd.matches :
       j > 1 => {rnd.matches[j].a, rnd.matches[j].b} \cap {a, b} = {}

OverrideHonoured(t, a, b, out) ==
  /\ out.ok => ForcedAtTableOne(latest_round(out.t), a, b)
  /\ (a \notin Range(PlayerIds(t)) \/ b \notin Range(PlayerIds(t)))
       => (~out.ok /\ out.t = t)

\* C25: whenever override-pair reports success for a forced pair (a, b),
\* the new latest round has a against b at table 1, PENDING, and neither
\* a nor b in another match; a forced pair naming an id that is not in the
\* roster is an error and leaves the document, its active round included,
\* as it was.
C25_ForcedPairHonoured ==
  \A pr \in ForcedPairs(doc) :
    OverrideHonoured(doc, pr[1], pr[2], api_override_pair(doc, pr[1], pr[2]))

\* ---------------------------------------------------------------- C26
\* the brackets of an override-pair's rest, read top to bottom as one list
RECURSIVE RankedRest(_)
RankedRest(brackets) ==
  IF brackets = <<>> THEN <<>> ELSE Head(brackets) \o RankedRest(Tail(brackets))

\* the document override-pair pairs on: the active round dropped if pending
OverrideBase(t) == IF HasRounds(t) /\ round_has_pending(t) THEN PopRound(t) ELSE t

\* the rest once a and b are forced together, in bracket order
OverrideRest(t, a, b) ==
  RankedRest(_build_brackets(SelectSeq(_dedupe(PlayerIds(t)),
                                       LAMBDA p : p \notin {a, b}),
                             _standings_maps(OverrideBase(t))))

\* competitors the document on which the round is paired records with a bye
HadBye(t) ==
  _bye_already_from_rounds(OverrideBase(t)) \cup _bye_history_get(OverrideBase(t))

\* the lowest-ranked of the rest without a bye so far, else the lowest-ranked
DueBye(rest, had) ==
  LET fresh == {k \in DOMAIN rest : rest[k] \notin had}
      from == IF fresh # {} THEN fresh ELSE DOMAIN rest
  IN rest[CHOOSE k \in from : \A k2 \in from : k2 <= k]

ByeTables(ms) == {k \in DOMAIN ms : ms[k].r = "BYE" \/ ms[k].b \in {None, BYE}}

ByeRuleKept(t, a, b) ==
  LET rest == OverrideRest(t, a, b)
      seats(ms) ==
        /\ ByeTables(ms) = {Len(ms)}
        /\ ms[Len(ms)].a = DueBye(rest, HadBye(t))
  IN Len(rest) % 2 = 1 => seats(latest_round(api_override_pair(t, a, b).t).matches)

Meets(t, p, q) ==
  /\ HasRounds(t)
  /\ \E j \in DOMAIN latest_round(t).matches :
       LET m == latest_round(t).matches[j]
       IN \/ (m.a = p /\ m.b = q)
          \/ (m.a = q /\ m.b = p /\ q # None)

\* the documents PairNext can store from t
Draws(t) == {api_pair_next(t).t}

\* pair-next can store a round in which p meets q, and one in which not
DrawOpen(draws, p, q) ==
  \E d1, d2 \in draws : Meets(d1, p, q) /\ ~Meets(d2, p, q)

OpeningDraw(draws, roster) ==
  /\ \E p \in roster, q \in roster \cup {None} : p # q /\ DrawOpen(draws, p, q)
  /\ Cardinality(roster) % 2 = 1 =>
       \A p \in roster : \E d \in draws : Meets(d, p, None)

\* C27: on a document without rounds and with 3 or more competitors,
\* pair-next is a draw: it can store different pairings of round 1, and
\* with an odd roster it can give the bye to any competitor
C27_OpeningDrawVaries ==
  (doc.rounds = <<>> /\ Len(doc.players) >= 3) =>
     OpeningDraw(Draws(doc), Range(PlayerIds(doc)))

\* ---------------------------------------------------------------- C28
\* competitors who sit alone at a bye match of a round in the document
ByeHolders(t) ==
  {MatchAt(t, pos).a :
     pos \in {q \in MatchPos(t) : MatchAt(t, q).b \in {None, BYE}}}

\* C28: every competitor id in bye_history is the sole competitor of a bye
\* match in some round currently in the document
C28_ByeHistoryBacked ==
  Range(doc.bye_history) \subseteq ByeHolders(doc)

====
